---- MODULE Spec2Model ----
(***************************************************************************)
(* Model of the license validation client of lib-license-go:               *)
(* validation.Client (the orchestrator), cache.Manager (TTL cache plus the *)
(* backup copy), api.Client (the verifier), refresh.Manager (started flag  *)
(* and cancel function) and shutdown.Manager (termination handler).        *)
(***************************************************************************)
EXTENDS Integers, Sequences, FiniteSets, TLC

(***************************************************************************)
(* Program constants                                                       *)
(***************************************************************************)
GlobalPluginValue == "global"

FallbackExpiryDaysLeft == 7

\* Number of distinct expiry values the authority answers with.
NumExpiry == 2

(***************************************************************************)
(* Values                                                                  *)
(***************************************************************************)
\* model.ValidationResult
MkResult(v, d, g, t) ==
    [Valid |-> v, ExpiryDaysLeft |-> d, ActiveGracePeriod |-> g, IsTrial |-> t]

\* model.ValidationResult{} : the zero value
ZeroResult == MkResult(FALSE, 0, FALSE, FALSE)

\* The temporary license without the grace period flag.
FallbackResult_NoGrace == MkResult(TRUE, FallbackExpiryDaysLeft, FALSE, FALSE)

\* The temporary valid license returned on a 5xx without a backup copy.
FallbackResult == MkResult(TRUE, FallbackExpiryDaysLeft, TRUE, FALSE)

\* Expiry values carried by the authority's answers: 10, 20, ...
ExpiryValues == {10 * k : k \in 1..NumExpiry}

\* Bodies the licensing authority may answer with on HTTP 200.
AuthorityResults ==
    {MkResult(TRUE, d, FALSE, FALSE) : d \in ExpiryValues}
        \cup {MkResult(FALSE, 3, TRUE, FALSE),
              MkResult(FALSE, 5, FALSE, TRUE),
              ZeroResult}

\* The organization IDs of the multi-organization configuration.
MultiOrgIDs == <<"a", "b">>

\* The organization ID lists a client may be constructed with.
Configs == {<<"global">>, <<"GLOBAL">>, <<"a">>, MultiOrgIDs}

\* Identifiers a caller may pass on the per-request path.
RequestIDs == {"global", "GLOBAL", "zzz", "a", "b"}

\* HTTP status codes the authority answers with.
Statuses == {200, 302, 403, 500}

\* Causes of a failing httpClient.Do.
TransportCauses == {"connection refused", "context deadline exceeded"}

\* What one call to the authority yields: an HTTP response, or a transport
\* failure of httpClient.Do.
Responses ==
    {[kind |-> "http", status |-> 200, body |-> r, cause |-> ""] :
        r \in AuthorityResults}
      \cup {[kind |-> "http", status |-> s, body |-> ZeroResult, cause |-> ""] :
              s \in Statuses \ {200}}
      \cup {[kind |-> "transport", status |-> 0, body |-> ZeroResult, cause |-> c] :
              c \in TransportCauses}

(***************************************************************************)
(* Errors.  An error is a record: api says the value is a *libErr.APIError,*)
(* net says its chain holds a net.Error (the *url.Error of httpClient.Do), *)
(* text is its message as a sequence of tokens.  Nil is the nil error.     *)
(***************************************************************************)
Nil == [api |-> FALSE, StatusCode |-> 0, net |-> FALSE, text |-> <<>>]

Digit(d) == <<"0", "1", "2", "3", "4", "5", "6", "7", "8", "9">>[d + 1]

RECURSIVE Itoa(_)
\* fmt's %d of a non-negative integer
Itoa(n) == IF n < 10 THEN Digit(n) ELSE Itoa(n \div 10) \o Digit(n % 10)

\* The message contains the token.
Contains(text, tok) == \E i \in 1..Len(text) : text[i] = tok

\* fmt.Errorf(prefix + "%w", err)
Wrap(prefix, err) ==
    [api |-> FALSE, StatusCode |-> 0, net |-> err.net,
     text |-> <<prefix>> \o err.text]

\* The message fragments IsConnectionError looks for.
connectionErrors ==
    {"connection refused", "no such host", "host unreachable", "i/o timeout",
     "no route to host", "network is unreachable", "operation timed out",
     "EOF", "connection reset by peer", "dial tcp", "TLS handshake",
     "context deadline exceeded", "operation canceled"}

IsConnectionError(err) ==
    /\ err # Nil
    /\ \/ \E i \in 1..Len(err.text) : err.text[i] \in connectionErrors
       \/ err.net

(***************************************************************************)
(* api.Client : the verifier                                               *)
(***************************************************************************)
handleErrorResponse(status) ==
    IF status >= 500 /\ status < 600
    THEN [api |-> TRUE, StatusCode |-> status, net |-> FALSE,
          text |-> <<"server error", ": ", Itoa(status)>>]
    ELSE IF status >= 400 /\ status < 500
    THEN [api |-> TRUE, StatusCode |-> status, net |-> FALSE,
          text |-> <<"client error", ": ", Itoa(status)>>]
    ELSE [api |-> TRUE, StatusCode |-> status, net |-> FALSE,
          text |-> <<"unexpected error", ": ", Itoa(status)>>]

\* validateForOrganization that takes every 2xx status for a success.
validateForOrganization_Any2xx(resp) ==
    IF resp.kind = "transport"
    THEN [result |-> ZeroResult,
          err |-> [api |-> FALSE, StatusCode |-> 0, net |-> TRUE,
                   text |-> <<"request failed: ", resp.cause>>]]
    ELSE IF resp.status < 200 \/ resp.status >= 300
    THEN [result |-> ZeroResult, err |-> handleErrorResponse(resp.status)]
    ELSE IF resp.kind = "undecodable"
    THEN [result |-> ZeroResult,
          err |-> [api |-> FALSE, StatusCode |-> 0, net |-> FALSE,
                   text |-> <<"failed to decode response: ", "json">>]]
    ELSE [result |-> resp.body, err |-> Nil]

\* The verifier: one httpClient.Do; a body that does not decode (kind
\* "undecodable") matters only under status 200.
validateForOrganization(resp) ==
    IF resp.kind = "transport"
    THEN [result |-> ZeroResult,
          err |-> [api |-> FALSE, StatusCode |-> 0, net |-> TRUE,
                   text |-> <<"request failed: ", resp.cause>>]]
    ELSE IF resp.status # 200
    THEN [result |-> ZeroResult, err |-> handleErrorResponse(resp.status)]
    ELSE IF resp.kind = "undecodable"
    THEN [result |-> ZeroResult,
          err |-> [api |-> FALSE, StatusCode |-> 0, net |-> FALSE,
                   text |-> <<"failed to decode response: ", "json">>]]
    ELSE [result |-> resp.body, err |-> Nil]

\* ValidateLicense of the temporary client validateSingleOrg builds, whose
\* configuration holds the one organization ID: the loop runs once.
ValidateLicense(resp) ==
    LET r == validateForOrganization(resp) IN
    IF r.err = Nil /\ (r.result.Valid \/ r.result.ActiveGracePeriod)
    THEN [result |-> r.result, err |-> Nil]
    ELSE [result |-> ZeroResult, err |-> r.err]

validateSingleOrg(orgID, resp) == ValidateLicense(resp)

(***************************************************************************)
(* State                                                                   *)
(***************************************************************************)
VARIABLES
    OrganizationIDs,  \* config.OrganizationIDs, fixed at construction
    IsGlobal,         \* Client.IsGlobal
    cache,            \* the TTL cache: cache[id] is <<>> or <<result>>
    cachedValue,      \* Manager.cachedValue: <<>> (nil) or <<result>>
    handler,          \* the installed termination handler
    started,          \* refresh.Manager.started
    cancel,           \* refresh.Manager.cancel: "nil" or "set"
    refreshCtx,       \* the refresh context: "none", "live" or "cancelled"
    lastStored,       \* history: lastStored[id] is the last result Store got for id
    last,             \* the last call made on the client and its outcome
    tasks,            \* the refresh goroutines Start launched, in order
    initOnce,         \* LicenseClient.initOnce: "new", "running" or "done"
    adapters,         \* what became of the call that builds each transport adapter
    goStart,          \* `go StartBackgroundRefresh` goroutines not yet run
    startup,          \* history of the one-time startup validation
    mu,               \* shutdown.Manager.mu: the holders of the RWMutex
    callers,          \* the goroutines calling SetHandler and Terminate
    reqs,             \* the goroutines validating for a request
    window,           \* history: calls made for each scope in its TTL period
    served            \* the last request a transport adapter decided

vars == <<OrganizationIDs, IsGlobal, cache, cachedValue, handler, started,
          cancel, refreshCtx, lastStored, last, tasks, initOnce, adapters,
          goStart, startup, mu, callers, reqs, window, served>>

\* The state of the goroutines that call the termination manager, of the
\* goroutines that serve requests, and of the transport adapters.
servingVars == <<mu, callers, reqs, window, served>>

\* The state of the refresh goroutines and of the middleware LicenseClient.
lifecycleVars == <<tasks, initOnce, adapters, goStart, startup>>

\* Keys the cache may hold.
CacheKeys == RequestIDs

\* The termination handlers: shutdown.DefaultHandler panics, a handler
\* installed by the application returns.
Handlers == {"DefaultHandler", "custom"}

\* The part of the client that a validation reads and writes.
ClientState ==
    [cache |-> cache, cachedValue |-> cachedValue, lastStored |-> lastStored,
     started |-> started, cancel |-> cancel, refreshCtx |-> refreshCtx,
     storeLog |-> <<>>, ctxLog |-> <<>>]

(***************************************************************************)
(* cache.Manager                                                           *)
(***************************************************************************)
\* Get: [found, result]
Get(cs, orgID) ==
    IF cs.cache[orgID] # <<>>
    THEN [found |-> TRUE, result |-> cs.cache[orgID][1]]
    ELSE [found |-> FALSE, result |-> ZeroResult]

\* Store: SetWithTTL for the key, and the backup copy in cachedValue.
Store(cs, orgID, result) ==
    [cs EXCEPT !.cache[orgID] = <<result>>,
               !.cachedValue = <<result>>,
               !.lastStored[orgID] = <<result>>,
               !.storeLog = Append(@, [orgID |-> orgID, result |-> result])]

GetLastResult(cs) == cs.cachedValue

(***************************************************************************)
(* refresh.Manager                                                         *)
(***************************************************************************)
\* Shutdown: nothing when not started; else cancel the context.  ctxLog
\* records the calls made on contexts: "WithCancel" and "cancel".
Shutdown(cs) ==
    IF ~cs.started
    THEN cs
    ELSE [cs EXCEPT !.started = FALSE,
                    !.cancel = "nil",
                    !.refreshCtx = IF cs.cancel # "nil" THEN "cancelled" ELSE @,
                    !.ctxLog = IF cs.cancel # "nil"
                               THEN Append(@, "cancel") ELSE @]

\* Start without the guard on started.
Start_NoGuard(cs) ==
    [cs EXCEPT !.started = TRUE, !.cancel = "set", !.refreshCtx = "live",
               !.ctxLog = Append(@, "WithCancel")]

\* Start, up to the launch of the refresh goroutine.
Start(cs) ==
    IF cs.started
    THEN cs
    ELSE [cs EXCEPT !.started = TRUE, !.cancel = "set", !.refreshCtx = "live",
                    !.ctxLog = Append(@, "WithCancel")]

(***************************************************************************)
(* shutdown.Manager                                                        *)
(***************************************************************************)
\* Terminate calls the installed handler: TRUE when the handler panics.
Terminate(h) == h = "DefaultHandler"

(***************************************************************************)
(* validation.Client : the orchestrator.  A validation yields an outcome:  *)
(* the client state it leaves, the result and error it returns, the        *)
(* reasons it handed to Terminate, whether the handler panicked (the call  *)
(* then returns nothing) and the number of calls made to the authority.    *)
(***************************************************************************)
Out(cs, result, err, reasons, panicked, calls) ==
    [cs |-> cs, result |-> result, err |-> err, reasons |-> reasons,
     panicked |-> panicked, calls |-> calls]

\* util.ContainsOrganizationID: slices.Contains, an exact comparison
ContainsOrganizationID(orgIDs, orgID) ==
    \E i \in 1..Len(orgIDs) : orgIDs[i] = orgID

\* strings.ToLower on the identifiers of the model
ToLower(str) == IF str = "GLOBAL" THEN "global" ELSE str

\* strings.EqualFold
EqualFold(x, y) == ToLower(x) = ToLower(y)

\* The reason handleAPIError hands to Terminate on a 4xx.
ClientErrorReason(err) ==
    <<"License validation failed with ", "client error", ": ">> \o err.text

\* The reason validateAndHandleAllOrgs hands to Terminate.
NoValidReason == <<"No valid licenses found for any configured organization">>

\* handleAPIError without the fallback to the backup copy on connection errors.
handleAPIError_NoConnFallback(cs, h, err) ==
    LET server == err.api /\ err.StatusCode >= 500 /\ err.StatusCode < 600
        client == err.api /\ err.StatusCode >= 400 /\ err.StatusCode < 500
        cs1 == IF client THEN Shutdown(cs) ELSE cs
        reasons == IF client THEN <<ClientErrorReason(err)>> ELSE <<>>
    IN
    IF server
    THEN IF GetLastResult(cs) # <<>>
         THEN Out(cs, GetLastResult(cs)[1], Nil, <<>>, FALSE, 0)
         ELSE Out(cs, FallbackResult, Nil, <<>>, FALSE, 0)
    ELSE IF client /\ Terminate(h)
    THEN Out(cs1, ZeroResult, Nil, reasons, TRUE, 0)
    ELSE Out(cs1, ZeroResult, Wrap("failed to validate license: ", err),
             reasons, FALSE, 0)

\* handleAPIError that returns the error of a 4xx without terminating.
handleAPIError_ClientNotFatal(cs, h, err) ==
    LET server == err.api /\ err.StatusCode >= 500 /\ err.StatusCode < 600 IN
    IF server
    THEN IF GetLastResult(cs) # <<>>
         THEN Out(cs, GetLastResult(cs)[1], Nil, <<>>, FALSE, 0)
         ELSE Out(cs, FallbackResult, Nil, <<>>, FALSE, 0)
    ELSE IF IsConnectionError(err) /\ GetLastResult(cs) # <<>>
    THEN Out(cs, GetLastResult(cs)[1], Nil, <<>>, FALSE, 0)
    ELSE Out(cs, ZeroResult, Wrap("failed to validate license: ", err),
             <<>>, FALSE, 0)

handleAPIError(cs, h, err) ==
    LET server == err.api /\ err.StatusCode >= 500 /\ err.StatusCode < 600
        client == err.api /\ err.StatusCode >= 400 /\ err.StatusCode < 500
        cs1 == IF client THEN Shutdown(cs) ELSE cs
        reasons == IF client THEN <<ClientErrorReason(err)>> ELSE <<>>
    IN
    IF server
    THEN IF GetLastResult(cs) # <<>>
         THEN Out(cs, GetLastResult(cs)[1], Nil, <<>>, FALSE, 0)
         ELSE Out(cs, FallbackResult, Nil, <<>>, FALSE, 0)
    ELSE IF client /\ Terminate(h)
    THEN Out(cs1, ZeroResult, Nil, reasons, TRUE, 0)
    ELSE IF IsConnectionError(err) /\ GetLastResult(cs1) # <<>>
    THEN Out(cs1, GetLastResult(cs1)[1], Nil, reasons, FALSE, 0)
    ELSE Out(cs1, ZeroResult, Wrap("failed to validate license: ", err),
             reasons, FALSE, 0)

\* validateAndHandleForOrg that repeats a failed call under the retry policy.
validateAndHandleForOrg_WithRetry(cs, h, orgID, resp) ==
    LET r == validateSingleOrg(orgID, resp) IN
    IF r.err # Nil
    THEN [handleAPIError(cs, h, r.err) EXCEPT !.calls = 3]
    ELSE Out(Store(cs, orgID, r.result), r.result, Nil, <<>>, FALSE, 1)

validateAndHandleForOrg(cs, h, orgID, resp) ==
    LET r == validateSingleOrg(orgID, resp) IN
    IF r.err # Nil
    THEN [handleAPIError(cs, h, r.err) EXCEPT !.calls = 1]
    ELSE Out(Store(cs, orgID, r.result), r.result, Nil, <<>>, FALSE, 1)

\* The error of ValidateWithOrgID for an identifier outside the allowed list.
UnknownScopeError(orgID) ==
    [api |-> FALSE, StatusCode |-> 0, net |-> FALSE,
     text |-> <<"organization ID ", orgID, " is not in the allowed list">>]

\* ValidateWithOrgID without the test of the allowed list.
ValidateWithOrgID_NoAllowedList(cs, h, orgIDs, orgID, resp) ==
    IF Get(cs, orgID).found
    THEN Out(cs, Get(cs, orgID).result, Nil, <<>>, FALSE, 0)
    ELSE validateAndHandleForOrg(cs, h, orgID, resp)

\* ValidateWithOrgID without the cache lookup.
ValidateWithOrgID_NoCache(cs, h, orgIDs, orgID, resp) ==
    IF ~ContainsOrganizationID(orgIDs, orgID)
    THEN Out(cs, ZeroResult,
             [api |-> FALSE, StatusCode |-> 0, net |-> FALSE,
              text |-> <<"organization ID ", orgID,
                         " is not in the allowed list">>],
             <<>>, FALSE, 0)
    ELSE validateAndHandleForOrg(cs, h, orgID, resp)

ValidateWithOrgID(cs, h, orgIDs, orgID, resp) ==
    IF ~ContainsOrganizationID(orgIDs, orgID)
    THEN Out(cs, ZeroResult,
             [api |-> FALSE, StatusCode |-> 0, net |-> FALSE,
              text |-> <<"organization ID ", orgID,
                         " is not in the allowed list">>],
             <<>>, FALSE, 0)
    ELSE IF Get(cs, orgID).found
    THEN Out(cs, Get(cs, orgID).result, Nil, <<>>, FALSE, 0)
    ELSE validateAndHandleForOrg(cs, h, orgID, resp)

\* The accumulators of the loop of validateAndHandleAllOrgs.
LoopStart(cs) ==
    [cs |-> cs, anyValid |-> FALSE, lastValidResult |-> ZeroResult,
     lastErr |-> Nil, reasons |-> <<>>, panicked |-> FALSE, visited |-> <<>>]

\* What the loop records of one scope: the answer, what the scope ended
\* with, and the client state just before it (acc) and after it (o).
Seen(acc, o, orgID, resp) ==
    [orgID |-> orgID, resp |-> resp, result |-> o.result, err |-> o.err,
     usable |-> /\ ~o.panicked
                /\ o.err = Nil
                /\ (o.result.Valid \/ o.result.ActiveGracePeriod
                      \/ o.result.IsTrial),
     preEver |-> (\E id \in CacheKeys : acc.cs.lastStored[id] # <<>>),
     preStored |-> acc.cs.lastStored[orgID],
     preCachedValue |-> acc.cs.cachedValue,
     terminated |-> o.reasons # <<>>,
     shutdown |-> acc.cs.started /\ ~o.cs.started]

\* The body of the loop for one scope, o being what validateAndHandleForOrg
\* gave for it: a panic of the termination handler leaves the loop.
LoopBody(acc, o, seen) ==
    IF o.panicked
    THEN [acc EXCEPT !.cs = o.cs, !.panicked = TRUE,
                     !.reasons = @ \o o.reasons,
                     !.visited = Append(@, seen)]
    ELSE [acc EXCEPT !.cs = o.cs,
                     !.anyValid = IF seen.usable THEN TRUE ELSE @,
                     !.lastValidResult = IF seen.usable THEN o.result ELSE @,
                     !.lastErr = IF seen.usable THEN @ ELSE o.err,
                     !.reasons = @ \o o.reasons,
                     !.visited = Append(@, seen)]

\* One scope of the loop.
LoopStep(acc, o, orgID, resp) ==
    CHOOSE next \in {LoopBody(a, b, Seen(a, b, orgID, resp)) :
                        a \in {acc}, b \in {o}} : TRUE

RECURSIVE AllOrgsLoop(_, _, _, _, _)
\* The loop over config.OrganizationIDs, from index i on.
AllOrgsLoop(acc, h, orgIDs, resps, i) ==
    IF i > Len(orgIDs) \/ acc.panicked
    THEN acc
    ELSE AllOrgsLoop(
           LoopStep(acc,
                    validateAndHandleForOrg(acc.cs, h, orgIDs[i], resps[i]),
                    orgIDs[i], resps[i]),
           h, orgIDs, resps, i + 1)

\* What the call returns after the loop: the outcome, with the scopes visited.
AllOrgsOut(acc, result, err) ==
    [cs |-> acc.cs, result |-> result, err |-> err, reasons |-> acc.reasons,
     panicked |-> acc.panicked, calls |-> Len(acc.visited),
     visited |-> acc.visited]

\* After the loop: terminate when no scope was found usable.
AfterLoop(acc, h) ==
    IF acc.panicked
    THEN AllOrgsOut(acc, ZeroResult, Nil)
    ELSE IF ~acc.anyValid
    THEN AllOrgsOut([acc EXCEPT !.cs = Shutdown(acc.cs),
                                !.reasons = Append(@, NoValidReason),
                                !.panicked = Terminate(h)],
                    ZeroResult,
                    IF Terminate(h) THEN Nil ELSE acc.lastErr)
    ELSE AllOrgsOut(acc, acc.lastValidResult, Nil)

validateAndHandleAllOrgs(cs, h, orgIDs, resps) ==
    IF Len(orgIDs) = 0
    THEN AllOrgsOut(LoopStart(cs), ZeroResult,
                    [api |-> FALSE, StatusCode |-> 0, net |-> FALSE,
                     text |-> <<"no organization IDs configured">>])
    ELSE AfterLoop(AllOrgsLoop(LoopStart(cs), h, orgIDs, resps, 1), h)

\* Validate is validateAndHandleAllOrgs.
Validate(cs, h, orgIDs, resps) == validateAndHandleAllOrgs(cs, h, orgIDs, resps)

(***************************************************************************)
(* The record of the last call                                             *)
(***************************************************************************)
NoCall ==
    [op |-> "New", orgID |-> "", resp |-> <<>>, hit |-> FALSE,
     preCachedValue |-> <<>>, preStored |-> <<>>, preEver |-> FALSE,
     preStarted |-> FALSE,
     result |-> ZeroResult, err |-> Nil, reasons |-> <<>>,
     panicked |-> FALSE, calls |-> 0, visited |-> <<>>, stored |-> <<>>,
     logs |-> <<>>]

\* The client state a call leaves.
Leaves(cs) ==
    /\ cache' = cs.cache
    /\ cachedValue' = cs.cachedValue
    /\ lastStored' = cs.lastStored
    /\ started' = cs.started
    /\ cancel' = cs.cancel
    /\ refreshCtx' = cs.refreshCtx

\* The transport adapters a LicenseClient builds.
Adapters == {"Middleware", "UnaryServerInterceptor", "StreamServerInterceptor"}

\* No startup validation has run: runs counts the runs of the function
\* handed to initOnce.Do, launches the refresh goroutines it launched.
NoStartup ==
    [runs |-> 0, launches |-> 0, panicked |-> FALSE, stopped |-> FALSE]

\* Goroutines that call the termination manager.
NumCallers == 3

\* A goroutine that has called neither SetHandler nor Terminate yet.
IdleCaller ==
    [pc |-> "idle", op |-> "", arg |-> "", seen |-> "", raced |-> FALSE,
     invoked |-> <<>>]

\* sync.RWMutex, unlocked: writer is the holder of the write lock (0 for
\* none), readers the holders of the read lock.
Unlocked == [writer |-> 0, readers |-> {}]

\* Goroutines that validate at the same time.
NumRequests == 2

\* Calls to the authority the model lets the requests for one scope make
\* within one TTL period.
MaxWindowCalls == 2

\* A goroutine that validates nothing: pass is 0 in a per-request
\* validation and the index of the scope in an aggregate one.
IdleRequest ==
    [pc |-> "idle", orgID |-> "", pass |-> 0, anyValid |-> FALSE,
     result |-> ZeroResult, err |-> Nil]

\* No request was decided by a transport adapter.
NoRequest ==
    [adapter |-> "", md |-> FALSE, header |-> <<>>, resp |-> <<>>,
     calls |-> 0, result |-> ZeroResult, err |-> Nil, code |-> "",
     status |-> 0, lcs |-> "", next |-> FALSE, panicked |-> FALSE]

(***************************************************************************)
(* Init: the client as validation.New and NewLicenseClient leave it.       *)
(***************************************************************************)
Init ==
    /\ OrganizationIDs \in Configs
    /\ IsGlobal = (Len(OrganizationIDs) = 1
                     /\ EqualFold(OrganizationIDs[1], GlobalPluginValue))
    /\ cache = [id \in CacheKeys |-> <<>>]
    /\ cachedValue = <<>>
    /\ handler = "DefaultHandler"
    /\ started = FALSE
    /\ cancel = "nil"
    /\ refreshCtx = "none"
    /\ lastStored = [id \in CacheKeys |-> <<>>]
    /\ last = NoCall
    /\ tasks = <<>>
    /\ initOnce = "new"
    /\ adapters = [a \in Adapters |-> "none"]
    /\ goStart = 0
    /\ startup = NoStartup
    /\ mu = Unlocked
    /\ callers = [t \in 1..NumCallers |-> IdleCaller]
    /\ reqs = [t \in 1..NumRequests |-> IdleRequest]
    /\ window = [id \in CacheKeys |-> 0]
    /\ served = NoRequest

(***************************************************************************)
(* Actions                                                                 *)
(***************************************************************************)
\* No validation is waiting for its caller to take the outcome.
Idle == last.op \notin {"ValidateWithOrgID", "Validate"}

\* SetTerminationHandler -> Manager.SetHandler: a nil handler is ignored.
SetTerminationHandler(h) ==
    /\ Idle
    /\ handler' = IF h = "nil" THEN handler ELSE h
    /\ last' = [NoCall EXCEPT !.op = "SetTerminationHandler"]
    /\ UNCHANGED servingVars
    /\ UNCHANGED <<OrganizationIDs, IsGlobal, cache, cachedValue, started,
                   cancel, refreshCtx, lastStored>>
    /\ UNCHANGED lifecycleVars

\* The per-request path, also used for the global licence at startup and
\* by the refresh of a global client.
DoValidateWithOrgID(orgID, resp) ==
    LET o == ValidateWithOrgID(ClientState, handler, OrganizationIDs, orgID, resp)
    IN
    /\ Idle
    /\ Leaves(o.cs)
    /\ last' = [NoCall EXCEPT
                  !.op = "ValidateWithOrgID",
                  !.orgID = orgID,
                  !.resp = IF o.calls > 0 THEN <<resp>> ELSE <<>>,
                  !.hit = Get(ClientState, orgID).found,
                  !.preCachedValue = cachedValue,
                  !.preStored = lastStored[orgID],
                  !.preEver = (\E id \in CacheKeys : lastStored[id] # <<>>),
                  !.preStarted = started,
                  !.result = o.result,
                  !.err = o.err,
                  !.reasons = o.reasons,
                  !.panicked = o.panicked,
                  !.calls = o.calls,
                  !.stored = o.cs.storeLog]
    /\ UNCHANGED servingVars
    /\ UNCHANGED <<OrganizationIDs, IsGlobal, handler>>
    /\ UNCHANGED lifecycleVars

\* The aggregate validation of all configured organization IDs.
DoValidate(resps) ==
    LET o == Validate(ClientState, handler, OrganizationIDs, resps) IN
    /\ Idle
    /\ Leaves(o.cs)
    /\ last' = [NoCall EXCEPT
                  !.op = "Validate",
                  !.preCachedValue = cachedValue,
                  !.preStarted = started,
                  !.result = o.result,
                  !.err = o.err,
                  !.reasons = o.reasons,
                  !.panicked = o.panicked,
                  !.calls = o.calls,
                  !.visited = o.visited,
                  !.stored = o.cs.storeLog]
    /\ UNCHANGED servingVars
    /\ UNCHANGED <<OrganizationIDs, IsGlobal, handler>>
    /\ UNCHANGED lifecycleVars

\* The TTL of the entry of id elapses.
Expire(id) ==
    /\ Idle
    /\ cache[id] # <<>>
    /\ cache' = [cache EXCEPT ![id] = <<>>]
    /\ last' = [NoCall EXCEPT !.op = "Expire", !.orgID = id]
    /\ UNCHANGED servingVars
    /\ UNCHANGED <<OrganizationIDs, IsGlobal, cachedValue, handler, started,
                   cancel, refreshCtx, lastStored>>
    /\ UNCHANGED lifecycleVars

StartBackgroundRefresh ==
    /\ Idle
    /\ Leaves(Start(ClientState))
    /\ last' = [NoCall EXCEPT !.op = "StartBackgroundRefresh",
                              !.preStarted = started]
    /\ UNCHANGED servingVars
    /\ UNCHANGED <<OrganizationIDs, IsGlobal, handler>>
    /\ UNCHANGED lifecycleVars

ShutdownBackgroundRefresh ==
    /\ Idle
    /\ Leaves(Shutdown(ClientState))
    /\ last' = [NoCall EXCEPT !.op = "ShutdownBackgroundRefresh",
                              !.preStarted = started]
    /\ UNCHANGED servingVars
    /\ UNCHANGED <<OrganizationIDs, IsGlobal, handler>>
    /\ UNCHANGED lifecycleVars

\* The caller of a validation takes its outcome (the returned pair, or the
\* recovered panic); the next call on the client follows.
Return ==
    /\ ~Idle
    /\ last' = [NoCall EXCEPT !.op = "Return"]
    /\ UNCHANGED servingVars
    /\ UNCHANGED <<OrganizationIDs, IsGlobal, cache, cachedValue, handler,
                   started, cancel, refreshCtx, lastStored>>
    /\ UNCHANGED lifecycleVars

Next ==
    \/ Return
    \/ \E h \in Handlers \cup {"nil"} : SetTerminationHandler(h)
    \/ \E orgID \in RequestIDs, resp \in Responses :
          DoValidateWithOrgID(orgID, resp)
    \/ \E resps \in [1..Len(OrganizationIDs) -> Responses] : DoValidate(resps)
    \/ \E id \in CacheKeys : Expire(id)
    \/ StartBackgroundRefresh
    \/ ShutdownBackgroundRefresh

Spec == Init /\ [][Next]_vars

(***************************************************************************)
(* The refresh goroutine of refresh.Manager.Start and ValidateWithRetry.   *)
(* A task is the goroutine one Start call launches: pc says where it is,   *)
(* ctx is the context Start derived for it, tick says a tick waits in the  *)
(* ticker's channel.  i, backoff, lastErr are the locals of the call of    *)
(* ValidateWithRetry in progress; n counts its attempts, succ says one of  *)
(* them succeeded, ret and how are what the last finished call returned.   *)
(* ticks, passes, taken, late and restart are history.                     *)
(***************************************************************************)
\* Tasks the model lets Start launch.
MaxTasks == 2

\* Ticks the model lets one ticker fire.
MaxTicks == 2

\* maxRetries of ValidateWithRetry
maxRetries == 3

\* The first backoff of ValidateWithRetry, in seconds.
InitialBackoff == 5

\* ctx.Err() of a cancelled context
ContextCanceled ==
    [api |-> FALSE, StatusCode |-> 0, net |-> FALSE,
     text |-> <<"context canceled">>]

\* What httpClient.Do yields under a cancelled context.
CancelledResponse ==
    [kind |-> "transport", status |-> 0, body |-> ZeroResult,
     cause |-> "context canceled"]

\* What the authority answers to the calls of the refresh goroutine.
RefreshResponses ==
    {r \in Responses : /\ r.status # 302
                       /\ r.body.ExpiryDaysLeft \in {0, 10}
                       /\ r.cause # "context deadline exceeded"}

\* The goroutine Start is about to launch; restart says a refresh task was
\* shut down before.
NewTask(restart) ==
    [pc |-> "created", ctx |-> "live", tick |-> FALSE, ticks |-> 0,
     i |-> 0, backoff |-> 0, lastErr |-> Nil, n |-> 0, succ |-> FALSE,
     ret |-> <<>>, how |-> "", passes |-> 0, taken |-> 0, late |-> FALSE,
     restart |-> restart, holdsMu |-> FALSE, fatal |-> FALSE]

RECURSIVE ApplyCtxLog(_, _, _)
\* The calls of ctxLog, from index j on, applied to the tasks: WithCancel
\* derives the context of a new task, cancel is m.cancel(), which cancels
\* the context of the last Start.
ApplyCtxLog(ts, log, j) ==
    IF j > Len(log)
    THEN ts
    ELSE IF log[j] = "WithCancel"
    THEN ApplyCtxLog(
           Append(ts, NewTask(\E k \in 1..Len(ts) : ts[k].ctx = "cancelled")),
           log, j + 1)
    ELSE ApplyCtxLog(
           IF ts = <<>> THEN ts ELSE [ts EXCEPT ![Len(ts)].ctx = "cancelled"],
           log, j + 1)

\* ValidateWithRetry, entry: the locals before the loop.
RetryEnter(t) ==
    [t EXCEPT !.pc = "attempt", !.i = 0, !.backoff = InitialBackoff,
              !.lastErr = Nil, !.n = 0, !.succ = FALSE, !.ret = <<>>,
              !.how = ""]

\* ValidateWithRetry, the validation of one attempt.
RetryValidate(cs, h, orgIDs, isGlobal, resps) ==
    IF isGlobal
    THEN ValidateWithOrgID(cs, h, orgIDs, GlobalPluginValue, resps[1])
    ELSE validateAndHandleAllOrgs(cs, h, orgIDs, resps)

\* ValidateWithRetry that goes on to the next attempt after a success.
RetryAfterAttempt_KeepsRetrying(t, o) ==
    IF o.panicked
    THEN [t EXCEPT !.pc = "panicked", !.n = @ + 1]
    ELSE [t EXCEPT !.pc = "ctxcheck", !.n = @ + 1, !.lastErr = o.err,
                   !.succ = (o.err = Nil)]

\* ValidateWithRetry, after the validation of an attempt gave o: a nil error
\* returns nil, an error is kept in lastErr; a panic of the termination
\* handler ends the goroutine.
RetryAfterAttempt(t, o) ==
    IF o.panicked
    THEN [t EXCEPT !.pc = "panicked", !.n = @ + 1]
    ELSE IF o.err = Nil
    THEN [t EXCEPT !.pc = "select", !.n = @ + 1, !.succ = TRUE,
                   !.ret = <<Nil>>, !.how = "success"]
    ELSE [t EXCEPT !.pc = "ctxcheck", !.n = @ + 1, !.lastErr = o.err]

\* ValidateWithRetry that ignores a parent context that is done.
RetryCtxCheck_IgnoresDone(t) ==
    IF t.i < maxRetries - 1
    THEN [t EXCEPT !.pc = "sleep"]
    ELSE [t EXCEPT !.pc = "select", !.ret = <<t.lastErr>>, !.how = "exhausted"]

\* ValidateWithRetry, after a failed attempt: stop when the parent context
\* is done, sleep unless this was the last attempt.
RetryCtxCheck(t) ==
    IF t.ctx = "cancelled"
    THEN [t EXCEPT !.pc = "select", !.ret = <<t.lastErr>>, !.how = "parentDone"]
    ELSE IF t.i < maxRetries - 1
    THEN [t EXCEPT !.pc = "sleep"]
    ELSE [t EXCEPT !.pc = "select", !.ret = <<t.lastErr>>, !.how = "exhausted"]

\* ValidateWithRetry that keeps the backoff as it is between attempts.
RetrySleepWake_NoDoubling(t) ==
    [t EXCEPT !.pc = "attempt", !.i = @ + 1]

\* ValidateWithRetry, the backoff elapsed: double it and go round the loop.
RetrySleepWake(t) ==
    [t EXCEPT !.pc = "attempt", !.i = @ + 1, !.backoff = @ * 2]

\* ValidateWithRetry, the parent context was done during the backoff.
RetrySleepCancel(t) ==
    [t EXCEPT !.pc = "select", !.ret = <<ContextCanceled>>,
              !.how = "cancelledInSleep"]

(***************************************************************************)
(* The lifecycle of the refresher: the client with its refresh goroutines. *)
(***************************************************************************)
\* No goroutine has panicked: a panic of the termination handler in a
\* refresh goroutine ends the process.
Alive == \A k \in 1..Len(tasks) : tasks[k].pc # "panicked"

\* The client as the application sets it up before it starts the refresher:
\* constructed for the global licence (in either spelling New accepts) or
\* for several organizations, with the default termination handler or one
\* of its own.
RefreshInit ==
    /\ Init
    /\ OrganizationIDs \in {<<GlobalPluginValue>>, <<"GLOBAL">>, MultiOrgIDs}

\* The state a step of the refresher leaves: the client state cs, and the
\* tasks ts after the calls cs made on the contexts.
RefreshLeaves(cs, ts) ==
    /\ Leaves(cs)
    /\ tasks' = ApplyCtxLog(ts, cs.ctxLog, 1)
    /\ UNCHANGED servingVars
    /\ UNCHANGED <<OrganizationIDs, IsGlobal, handler, last, initOnce,
                   adapters, goStart, startup>>

\* A step of task k alone, which becomes t.
TaskBecomes(k, t) ==
    /\ tasks' = [tasks EXCEPT ![k] = t]
    /\ UNCHANGED servingVars
    /\ UNCHANGED <<OrganizationIDs, IsGlobal, cache, cachedValue, handler,
                   started, cancel, refreshCtx, lastStored, last, initOnce,
                   adapters, goStart, startup>>

\* The application installs its termination handler.
RefreshSetHandler(h) ==
    /\ tasks = <<>>
    /\ initOnce = "new"
    /\ handler # h
    /\ handler' = h
    /\ UNCHANGED servingVars
    /\ UNCHANGED <<OrganizationIDs, IsGlobal, cache, cachedValue, started,
                   cancel, refreshCtx, lastStored, last>>
    /\ UNCHANGED lifecycleVars

\* A goroutine holds m.mu: a Lock of another one blocks.
MuHeld == \E j \in 1..Len(tasks) : tasks[j].holdsMu

\* Manager.Start up to the unlock: one critical section under m.mu.  The
\* application starts the refresher again only when the goroutines it shut
\* down have returned.
RefreshStart ==
    /\ Alive
    /\ ~MuHeld
    /\ Len(tasks) < MaxTasks
    /\ \A k \in 1..Len(tasks) :
          tasks[k].ctx = "cancelled" => tasks[k].pc = "exited"
    /\ RefreshLeaves(Start(ClientState), tasks)

\* Manager.Shutdown: one critical section under m.mu.
RefreshShutdown ==
    /\ Alive
    /\ ~MuHeld
    /\ RefreshLeaves(Shutdown(ClientState), tasks)

\* Manager.Start after the unlock: the ticker is there, `go func()`.
TaskSpawn(k) ==
    /\ Alive
    /\ tasks[k].pc = "created"
    /\ TaskBecomes(k, [tasks[k] EXCEPT !.pc = "select"])

\* The ticker of task k fires: a tick waits in its channel.
TickFires(k) ==
    /\ Alive
    /\ tasks[k].pc \notin {"exited", "panicked"}
    /\ ~tasks[k].tick
    /\ tasks[k].ticks < MaxTicks
    /\ TaskBecomes(k, [tasks[k] EXCEPT !.tick = TRUE, !.ticks = @ + 1])

\* select takes `case <-ticker.C` and attemptValidation keeps m.mu locked
\* while it calls ValidateWithRetry.
SelectTick_HoldsMu(k) ==
    /\ Alive
    /\ ~MuHeld
    /\ tasks[k].pc = "select"
    /\ tasks[k].tick
    /\ TaskBecomes(k, RetryEnter([tasks[k] EXCEPT
                                    !.tick = FALSE,
                                    !.passes = @ + 1,
                                    !.taken = @ + 1,
                                    !.late = @ \/ tasks[k].ctx = "cancelled",
                                    !.holdsMu = TRUE,
                                    !.fatal = FALSE]))

\* select takes `case <-ticker.C`: attemptValidation notes the time of the
\* attempt in a critical section under m.mu, unlocks, and enters
\* ValidateWithRetry.
SelectTick(k) ==
    /\ Alive
    /\ ~MuHeld
    /\ tasks[k].pc = "select"
    /\ tasks[k].tick
    /\ TaskBecomes(k, RetryEnter([tasks[k] EXCEPT
                                    !.tick = FALSE,
                                    !.passes = @ + 1,
                                    !.taken = @ + 1,
                                    !.late = @ \/ tasks[k].ctx = "cancelled",
                                    !.holdsMu = FALSE,
                                    !.fatal = FALSE]))

\* select takes `case <-refreshCtx.Done()` and goes round the loop without
\* returning.
SelectDone_StaysInLoop(k) ==
    /\ Alive
    /\ tasks[k].pc = "select"
    /\ tasks[k].ctx = "cancelled"
    /\ TaskBecomes(k, [tasks[k] EXCEPT !.pc = "select"])

\* select takes `case <-refreshCtx.Done()`: the goroutine returns.
SelectDone(k) ==
    /\ Alive
    /\ tasks[k].pc = "select"
    /\ tasks[k].ctx = "cancelled"
    /\ TaskBecomes(k, [tasks[k] EXCEPT !.pc = "exited"])

\* The context of the attempt of task k is done before the call for the
\* i-th organization: it was cancelled before the attempt, or a Shutdown
\* made by the attempt itself for an organization before cancelled it.
CtxDoneBefore(k, o, i) ==
    \/ tasks[k].ctx = "cancelled"
    \/ /\ ~IsGlobal
       /\ k = Len(tasks)
       /\ \E j \in 1..(i - 1) : j <= Len(o.visited) /\ o.visited[j].shutdown

\* The validation found a fatal state: it called refreshManager.Shutdown()
\* and then the termination handler.
CallsShutdown(o) == o.reasons # <<>>

\* One attempt of ValidateWithRetry in task k, o being what the validation
\* gives under the answers resps: a call under a context that is done
\* fails, the others are answered by the authority.  Shutdown locks m.mu:
\* it blocks while a goroutine holds it.
AttemptGives(k, resps, o) ==
    /\ \A i \in 1..Len(OrganizationIDs) :
          IF CtxDoneBefore(k, o, i)
          THEN resps[i] = CancelledResponse
          ELSE resps[i] \in RefreshResponses
    /\ IF CallsShutdown(o) /\ MuHeld
       THEN TaskBecomes(k, [tasks[k] EXCEPT !.pc = "blocked",
                                            !.fatal = TRUE])
       ELSE RefreshLeaves(o.cs,
                          [tasks EXCEPT ![k] =
                              [RetryAfterAttempt(tasks[k], o) EXCEPT
                                  !.fatal = CallsShutdown(o)]])

TaskAttempt(k, resps) ==
    /\ Alive
    /\ tasks[k].pc = "attempt"
    /\ \E o \in {RetryValidate(ClientState, handler, OrganizationIDs,
                                IsGlobal, resps)} :
          AttemptGives(k, resps, o)

TaskCtxCheck(k) ==
    /\ Alive
    /\ tasks[k].pc = "ctxcheck"
    /\ TaskBecomes(k, RetryCtxCheck(tasks[k]))

\* time.After(backoff) fires while the goroutine waits in the backoff.
TaskSleepWake(k) ==
    /\ Alive
    /\ tasks[k].pc = "sleep"
    /\ tasks[k].ctx = "live"
    /\ TaskBecomes(k, RetrySleepWake(tasks[k]))

\* ctx.Done() is closed while the goroutine waits in the backoff.
TaskSleepCancel(k) ==
    /\ Alive
    /\ tasks[k].pc = "sleep"
    /\ tasks[k].ctx = "cancelled"
    /\ TaskBecomes(k, RetrySleepCancel(tasks[k]))

\* The TTL of the entry of id elapses.
RefreshExpire(id) ==
    /\ Alive
    /\ cache[id] # <<>>
    /\ cache' = [cache EXCEPT ![id] = <<>>]
    /\ UNCHANGED servingVars
    /\ UNCHANGED <<OrganizationIDs, IsGlobal, cachedValue, handler, started,
                   cancel, refreshCtx, lastStored, last>>
    /\ UNCHANGED lifecycleVars

RefreshNext ==
    \/ \E h \in Handlers : RefreshSetHandler(h)
    \/ RefreshStart
    \/ RefreshShutdown
    \/ \E k \in 1..Len(tasks) : TaskSpawn(k)
    \/ \E k \in 1..Len(tasks) : TickFires(k)
    \/ \E k \in 1..Len(tasks) : SelectTick(k)
    \/ \E k \in 1..Len(tasks) : SelectDone(k)
    \/ \E k \in 1..Len(tasks) :
          \E resps \in [1..Len(OrganizationIDs) ->
                           RefreshResponses \cup {CancelledResponse}] :
             TaskAttempt(k, resps)
    \/ \E k \in 1..Len(tasks) : TaskCtxCheck(k)
    \/ \E k \in 1..Len(tasks) : TaskSleepWake(k)
    \/ \E k \in 1..Len(tasks) : TaskSleepCancel(k)
    \/ \E id \in CacheKeys : RefreshExpire(id)

RefreshSpec == RefreshInit /\ [][RefreshNext]_vars

\* The steps the refresh goroutine k takes by itself outside the calls to
\* the authority.
TaskStep(k) ==
    /\ k <= Len(tasks)
    /\ \/ TaskSpawn(k)
       \/ SelectTick(k)
       \/ SelectDone(k)
       \/ TaskCtxCheck(k)
       \/ TaskSleepWake(k)
       \/ TaskSleepCancel(k)

\* The attempt of task k under a context that is done: every call it makes
\* fails on the context.
CancelledAttempt(k) ==
    /\ k <= Len(tasks)
    /\ tasks[k].pc = "attempt"
    /\ tasks[k].ctx = "cancelled"
    /\ TaskAttempt(k, [i \in 1..Len(OrganizationIDs) |-> CancelledResponse])

\* The refresher under a fair scheduler: a goroutine that can take a step
\* takes one in the end, its timers firing and its selects returning; a
\* call made with http.NewRequestWithContext under a context that is done
\* returns; and a select that finds refreshCtx.Done() ready again and again
\* takes that case in the end, select choosing at random among the cases
\* that are ready.
RefreshFairSpec ==
    /\ RefreshSpec
    /\ \A k \in 1..MaxTasks : WF_vars(TaskStep(k))
    /\ \A k \in 1..MaxTasks : WF_vars(CancelledAttempt(k))
    /\ \A k \in 1..MaxTasks : SF_vars(k <= Len(tasks) /\ SelectDone(k))

(***************************************************************************)
(* The middleware LicenseClient: the transport adapters and the one-time   *)
(* startup validation.  The call that builds adapter a is "none" (not      *)
(* made), "calling" (in startupValidation, before initOnce.Do), "inDo"     *)
(* (running the function handed to initOnce.Do), "built" (it returned the  *)
(* handler) or "panicked".                                                 *)
(***************************************************************************)
\* validateGlobalLicenseOnStartup / validateMultiOrgLicensesOnStartup: the
\* validation startupValidation runs.
StartupValidate(cs, h, orgIDs, isGlobal, resps) ==
    IF isGlobal
    THEN ValidateWithOrgID(cs, h, orgIDs, GlobalPluginValue, resps[1])
    ELSE validateAndHandleAllOrgs(cs, h, orgIDs, resps)

\* The startup validation panics: the termination handler did, or the
\* validation returned an error, or the global licence is not usable.
StartupPanics(isGlobal, o) ==
    \/ o.panicked
    \/ o.err # Nil
    \/ isGlobal /\ ~o.result.Valid /\ ~o.result.ActiveGracePeriod

\* Middleware(), UnaryServerInterceptor() or StreamServerInterceptor() is
\* called and enters startupValidation.
AdapterCall(a) ==
    /\ Alive
    /\ adapters[a] = "none"
    /\ adapters' = [adapters EXCEPT ![a] = "calling"]
    /\ UNCHANGED servingVars
    /\ UNCHANGED <<OrganizationIDs, IsGlobal, cache, cachedValue, handler,
                   started, cancel, refreshCtx, lastStored, last, tasks,
                   initOnce, goStart, startup>>

\* initOnce.Do whose function launches the refresher before it validates.
OnceEnter_LaunchesFirst(a) ==
    /\ Alive
    /\ adapters[a] = "calling"
    /\ initOnce = "new"
    /\ initOnce' = "running"
    /\ adapters' = [adapters EXCEPT ![a] = "inDo"]
    /\ startup' = [startup EXCEPT !.runs = @ + 1]
    /\ goStart' = goStart + 1
    /\ UNCHANGED servingVars
    /\ UNCHANGED <<OrganizationIDs, IsGlobal, cache, cachedValue, handler,
                   started, cancel, refreshCtx, lastStored, last, tasks>>

\* initOnce.Do of a latch each adapter has of its own.
OnceEnter_PerAdapter(a) ==
    /\ Alive
    /\ adapters[a] = "calling"
    /\ \A b \in Adapters : adapters[b] # "inDo"
    /\ initOnce' = "running"
    /\ adapters' = [adapters EXCEPT ![a] = "inDo"]
    /\ startup' = [startup EXCEPT !.runs = @ + 1]
    /\ UNCHANGED servingVars
    /\ UNCHANGED <<OrganizationIDs, IsGlobal, cache, cachedValue, handler,
                   started, cancel, refreshCtx, lastStored, last, tasks,
                   goStart>>

\* initOnce.Do, first caller: it takes the latch and runs the function.
OnceEnter(a) ==
    /\ Alive
    /\ adapters[a] = "calling"
    /\ initOnce = "new"
    /\ initOnce' = "running"
    /\ adapters' = [adapters EXCEPT ![a] = "inDo"]
    /\ startup' = [startup EXCEPT !.runs = @ + 1]
    /\ UNCHANGED servingVars
    /\ UNCHANGED <<OrganizationIDs, IsGlobal, cache, cachedValue, handler,
                   started, cancel, refreshCtx, lastStored, last, tasks,
                   goStart>>

\* The function handed to initOnce.Do, o being what the startup validation
\* gives: a panic leaves Do (which marks the latch done) and the
\* constructor; otherwise `go StartBackgroundRefresh` and Do returns.
OnceGives(a, o) ==
    /\ Leaves(o.cs)
    /\ initOnce' = "done"
    /\ IF StartupPanics(IsGlobal, o)
       THEN /\ adapters' = [adapters EXCEPT ![a] = "panicked"]
            /\ startup' = [startup EXCEPT !.panicked = TRUE]
            /\ goStart' = goStart
       ELSE /\ adapters' = [adapters EXCEPT ![a] = "built"]
            /\ startup' = [startup EXCEPT !.launches = @ + 1]
            /\ goStart' = goStart + 1
    /\ UNCHANGED servingVars
    /\ UNCHANGED <<OrganizationIDs, IsGlobal, handler, last, tasks>>

OnceRun(a, resps) ==
    /\ Alive
    /\ adapters[a] = "inDo"
    /\ OnceGives(a, StartupValidate(ClientState, handler, OrganizationIDs,
                                    IsGlobal, resps))

\* initOnce.Do, a later caller: it waits while the function runs and returns
\* when the latch is done; the constructor returns the handler.
AdapterSkip(a) ==
    /\ Alive
    /\ adapters[a] = "calling"
    /\ initOnce = "done"
    /\ adapters' = [adapters EXCEPT ![a] = "built"]
    /\ UNCHANGED servingVars
    /\ UNCHANGED <<OrganizationIDs, IsGlobal, cache, cachedValue, handler,
                   started, cancel, refreshCtx, lastStored, last, tasks,
                   initOnce, goStart, startup>>

\* The goroutine of `go c.validator.StartBackgroundRefresh(bgCtx)` runs
\* Manager.Start up to the unlock.
GoStartRuns ==
    /\ Alive
    /\ ~MuHeld
    /\ goStart > 0
    /\ Len(tasks) < MaxTasks
    /\ goStart' = goStart - 1
    /\ Leaves(Start(ClientState))
    /\ tasks' = ApplyCtxLog(tasks, Start(ClientState).ctxLog, 1)
    /\ UNCHANGED servingVars
    /\ UNCHANGED <<OrganizationIDs, IsGlobal, handler, last, initOnce,
                   adapters, startup>>

\* LicenseClient.ShutdownBackgroundRefresh: Manager.Shutdown, one critical
\* section under m.mu.  The client notes that the application called it
\* after one of its adapter constructors had returned.
LicenseShutdown ==
    /\ Alive
    /\ ~MuHeld
    /\ Leaves(Shutdown(ClientState))
    /\ tasks' = ApplyCtxLog(tasks, Shutdown(ClientState).ctxLog, 1)
    /\ startup' = [startup EXCEPT
                      !.stopped = @ \/ \E a \in Adapters :
                                          adapters[a] = "built"]
    /\ UNCHANGED servingVars
    /\ UNCHANGED <<OrganizationIDs, IsGlobal, handler, last, initOnce,
                   adapters, goStart>>

\* What an application does with a LicenseClient: it builds adapters and
\* shuts the refresher down; the refresh goroutine runs.
StartupNext ==
    \/ \E h \in Handlers : RefreshSetHandler(h)
    \/ \E a \in Adapters : AdapterCall(a)
    \/ \E a \in Adapters : OnceEnter(a)
    \/ \E a \in Adapters :
          \E resps \in [1..Len(OrganizationIDs) -> RefreshResponses] :
             OnceRun(a, resps)
    \/ \E a \in Adapters : AdapterSkip(a)
    \/ GoStartRuns
    \/ LicenseShutdown
    \/ \E k \in 1..Len(tasks) : TaskSpawn(k)
    \/ \E k \in 1..Len(tasks) : TickFires(k)
    \/ \E k \in 1..Len(tasks) : SelectTick(k)
    \/ \E k \in 1..Len(tasks) : SelectDone(k)
    \/ \E k \in 1..Len(tasks) :
          \E resps \in [1..Len(OrganizationIDs) ->
                           RefreshResponses \cup {CancelledResponse}] :
             TaskAttempt(k, resps)
    \/ \E k \in 1..Len(tasks) : TaskCtxCheck(k)
    \/ \E k \in 1..Len(tasks) : TaskSleepWake(k)
    \/ \E k \in 1..Len(tasks) : TaskSleepCancel(k)
    \/ \E id \in CacheKeys : RefreshExpire(id)

StartupSpec == RefreshInit /\ [][StartupNext]_vars

\* The LicenseClient under a fair scheduler: the goroutine launched by
\* `go c.validator.StartBackgroundRefresh(bgCtx)` runs in the end, and the
\* refresh goroutines are scheduled as in RefreshFairSpec.
StartupFairSpec ==
    /\ StartupSpec
    /\ WF_vars(GoStartRuns)
    /\ \A k \in 1..MaxTasks : WF_vars(TaskStep(k))
    /\ \A k \in 1..MaxTasks : WF_vars(CancelledAttempt(k))
    /\ \A k \in 1..MaxTasks : SF_vars(k <= Len(tasks) /\ SelectDone(k))

(***************************************************************************)
(* shutdown.Manager under concurrent callers.  Each goroutine makes one    *)
(* call, SetHandler or Terminate; pc says where it is in it.  A panic of   *)
(* the handler ends the process.                                           *)
(***************************************************************************)
\* Reasons handed to Terminate.
TerminateReasons ==
    {NoValidReason,
     <<"License validation failed with ", "client error", ": ",
       "client error", ": ", "403">>}

\* No goroutine has panicked.
Running == \A t \in 1..NumCallers : callers[t].pc # "panicked"

\* Goroutine t becomes c; the mutex becomes m and the handler h.
CallerBecomes(t, c, m, h) ==
    /\ callers' = [callers EXCEPT ![t] = c]
    /\ mu' = m
    /\ handler' = h
    /\ UNCHANGED <<OrganizationIDs, IsGlobal, cache, cachedValue, started,
                   cancel, refreshCtx, lastStored, last, reqs, window,
                   served>>
    /\ UNCHANGED lifecycleVars

\* SetHandler is called with h: a nil handler returns at once.
CallSetHandler(t, h) ==
    /\ Running
    /\ callers[t].pc = "idle"
    /\ CallerBecomes(t, [callers[t] EXCEPT
                           !.op = "SetHandler", !.arg = h,
                           !.pc = IF h = "nil" THEN "returned" ELSE "Lock"],
                     mu, handler)

\* m.mu.Lock(): waits until nobody holds the mutex.
SetHandlerLock(t) ==
    /\ Running
    /\ callers[t].pc = "Lock"
    /\ mu.writer = 0
    /\ mu.readers = {}
    /\ CallerBecomes(t, [callers[t] EXCEPT !.pc = "write"],
                     [mu EXCEPT !.writer = t], handler)

\* m.handler = handler
SetHandlerWrite(t) ==
    /\ Running
    /\ callers[t].pc = "write"
    /\ CallerBecomes(t, [callers[t] EXCEPT !.pc = "Unlock"], mu,
                     callers[t].arg)

\* The deferred m.mu.Unlock().
SetHandlerUnlock(t) ==
    /\ Running
    /\ callers[t].pc = "Unlock"
    /\ CallerBecomes(t, [callers[t] EXCEPT !.pc = "returned"],
                     [mu EXCEPT !.writer = 0], handler)

\* Terminate is called with a reason.
CallTerminate(t, reason) ==
    /\ Running
    /\ callers[t].pc = "idle"
    /\ CallerBecomes(t, [callers[t] EXCEPT !.op = "Terminate",
                                           !.arg = reason, !.pc = "RLock"],
                     mu, handler)

\* Terminate that reads the handler without the read lock.
TerminateRLock_NoLock(t) ==
    /\ Running
    /\ callers[t].pc = "RLock"
    /\ CallerBecomes(t, [callers[t] EXCEPT !.pc = "read"], mu, handler)

\* m.mu.RLock(): waits until nobody holds the write lock.
TerminateRLock(t) ==
    /\ Running
    /\ callers[t].pc = "RLock"
    /\ mu.writer = 0
    /\ CallerBecomes(t, [callers[t] EXCEPT !.pc = "read"],
                     [mu EXCEPT !.readers = @ \cup {t}], handler)

\* handler := m.handler.  A read while another goroutine is about to write
\* the field is a data race: it gives the old or the new value.
TerminateRead(t, h) ==
    /\ Running
    /\ callers[t].pc = "read"
    /\ \/ h = handler
       \/ \E u \in 1..NumCallers :
             callers[u].pc = "write" /\ h = callers[u].arg
    /\ CallerBecomes(t, [callers[t] EXCEPT
                           !.pc = "RUnlock", !.seen = h,
                           !.raced = \E u \in 1..NumCallers :
                                         callers[u].pc = "write"],
                     mu, handler)

\* m.mu.RUnlock()
TerminateRUnlock(t) ==
    /\ Running
    /\ callers[t].pc = "RUnlock"
    /\ CallerBecomes(t, [callers[t] EXCEPT !.pc = "call"],
                     [mu EXCEPT !.readers = @ \ {t}], handler)

\* handler(reason): the default handler panics, a handler of the
\* application returns.
TerminateCall(t) ==
    /\ Running
    /\ callers[t].pc = "call"
    /\ CallerBecomes(t, [callers[t] EXCEPT
                           !.invoked = Append(@, [handler |-> callers[t].seen,
                                                  reason |-> callers[t].arg]),
                           !.pc = IF Terminate(callers[t].seen)
                                  THEN "panicked" ELSE "returned"],
                     mu, handler)

\* The client as constructed, shutdown.New having installed DefaultHandler.
HandlerInit ==
    /\ Init
    /\ OrganizationIDs = MultiOrgIDs

HandlerNext ==
    \/ \E t \in 1..NumCallers : \E h \in Handlers \cup {"nil"} :
          CallSetHandler(t, h)
    \/ \E t \in 1..NumCallers : SetHandlerLock(t)
    \/ \E t \in 1..NumCallers : SetHandlerWrite(t)
    \/ \E t \in 1..NumCallers : SetHandlerUnlock(t)
    \/ \E t \in 1..NumCallers : \E reason \in TerminateReasons :
          CallTerminate(t, reason)
    \/ \E t \in 1..NumCallers : TerminateRLock(t)
    \/ \E t \in 1..NumCallers : \E h \in Handlers : TerminateRead(t, h)
    \/ \E t \in 1..NumCallers : TerminateRUnlock(t)
    \/ \E t \in 1..NumCallers : TerminateCall(t)

HandlerSpec == HandlerInit /\ [][HandlerNext]_vars

(***************************************************************************)
(* Validations running at the same time on one client: per-request         *)
(* validations (ValidateWithOrgID) and aggregate ones (the refresh cycle   *)
(* of a multi-organization client), each goroutine taking the calls on the *)
(* cache, the call to the authority and the handling of its error as       *)
(* separate steps.                                                         *)
(***************************************************************************)
\* Identifiers the requests carry.
ServedIDs == {"a", "b", "zzz"}

\* What the authority answers to these validations.
RequestAnswers ==
    {r \in Responses : /\ r.status # 302
                       /\ r.body.ExpiryDaysLeft \in {0, 10}
                       /\ r.cause # "context deadline exceeded"}

\* No validation has panicked.
Serving == \A t \in 1..NumRequests : reqs[t].pc # "panicked"

\* Goroutine t becomes r, leaving the client state cs and the counts w.
RequestBecomes(t, r, cs, w) ==
    /\ reqs' = [reqs EXCEPT ![t] = r]
    /\ Leaves(cs)
    /\ window' = w
    /\ UNCHANGED <<OrganizationIDs, IsGlobal, handler, last, mu, callers,
                   served>>
    /\ UNCHANGED lifecycleVars

\* The validation of one scope ended with (result, err): a per-request
\* validation returns it; the loop of validateAndHandleAllOrgs notes whether
\* the scope is usable and goes on to the next scope.
FinishScope(r, result, err) ==
    IF r.pass = 0
    THEN [r EXCEPT !.pc = "done", !.result = result, !.err = err]
    ELSE IF r.pass < Len(OrganizationIDs)
    THEN [r EXCEPT !.pc = "call", !.pass = @ + 1,
                   !.orgID = OrganizationIDs[r.pass + 1],
                   !.anyValid = @ \/ (err = Nil /\ (result.Valid
                                                     \/ result.ActiveGracePeriod
                                                     \/ result.IsTrial))]
    ELSE [r EXCEPT !.pc = "afterLoop",
                   !.anyValid = @ \/ (err = Nil /\ (result.Valid
                                                     \/ result.ActiveGracePeriod
                                                     \/ result.IsTrial))]

\* ValidateWithOrgID is called: an identifier outside the list is refused.
ReqBegin(t, orgID) ==
    /\ Serving
    /\ reqs[t].pc = "idle"
    /\ RequestBecomes(t,
          IF ~ContainsOrganizationID(OrganizationIDs, orgID)
          THEN [IdleRequest EXCEPT !.pc = "done", !.orgID = orgID,
                                   !.err = UnknownScopeError(orgID)]
          ELSE [IdleRequest EXCEPT !.pc = "Get", !.orgID = orgID],
          ClientState, window)

\* validateAndHandleAllOrgs is called: the loop starts at the first scope.
ReqBeginAll(t) ==
    /\ Serving
    /\ reqs[t].pc = "idle"
    /\ RequestBecomes(t, [IdleRequest EXCEPT !.pc = "call", !.pass = 1,
                                             !.orgID = OrganizationIDs[1]],
                      ClientState, window)

\* c.cacheManager.Get(orgID): a hit returns the cached result.
ReqGet(t) ==
    /\ Serving
    /\ reqs[t].pc = "Get"
    /\ RequestBecomes(t,
          IF Get(ClientState, reqs[t].orgID).found
          THEN [reqs[t] EXCEPT !.pc = "done",
                               !.result = Get(ClientState, reqs[t].orgID).result]
          ELSE [reqs[t] EXCEPT !.pc = "call"],
          ClientState, window)

\* validateSingleOrg: the call to the authority, answered by resp.
ReqCall(t, resp) ==
    /\ Serving
    /\ reqs[t].pc = "call"
    /\ reqs[t].pass = 0 => window[reqs[t].orgID] < MaxWindowCalls
    /\ RequestBecomes(t,
          [reqs[t] EXCEPT
             !.pc = IF validateSingleOrg(reqs[t].orgID, resp).err # Nil
                    THEN "handleAPIError" ELSE "SetWithTTL",
             !.result = validateSingleOrg(reqs[t].orgID, resp).result,
             !.err = validateSingleOrg(reqs[t].orgID, resp).err],
          ClientState,
          IF reqs[t].pass = 0
          THEN [window EXCEPT ![reqs[t].orgID] = @ + 1]
          ELSE window)

\* Store, first statement: m.cache.SetWithTTL(orgID, result, 1, 24h).
ReqSetWithTTL(t) ==
    /\ Serving
    /\ reqs[t].pc = "SetWithTTL"
    /\ RequestBecomes(t, [reqs[t] EXCEPT !.pc = "cachedValue"],
          [ClientState EXCEPT
             !.cache[reqs[t].orgID] = <<reqs[t].result>>,
             !.lastStored[reqs[t].orgID] = <<reqs[t].result>>],
          window)

\* Store, second statement: m.cachedValue = &resultCopy.
ReqCachedValue(t) ==
    /\ Serving
    /\ reqs[t].pc = "cachedValue"
    /\ RequestBecomes(t, FinishScope(reqs[t], reqs[t].result, Nil),
          [ClientState EXCEPT !.cachedValue = <<reqs[t].result>>],
          window)

\* What handleAPIError gives o: a panic of the termination handler ends
\* the goroutine, and with it the process.
HandleGives(t, o) ==
    RequestBecomes(t,
       IF o.panicked
       THEN [reqs[t] EXCEPT !.pc = "panicked"]
       ELSE FinishScope(reqs[t], o.result, o.err),
       o.cs, window)

\* handleAPIError on the error of the call.
ReqHandleAPIError(t) ==
    /\ Serving
    /\ reqs[t].pc = "handleAPIError"
    /\ \E o \in {handleAPIError(ClientState, handler, reqs[t].err)} :
          HandleGives(t, o)

\* validateAndHandleAllOrgs after the loop: with no usable scope the
\* refresher is shut down and the termination handler called.
ReqAfterLoop(t) ==
    /\ Serving
    /\ reqs[t].pc = "afterLoop"
    /\ IF reqs[t].anyValid
       THEN RequestBecomes(t, [reqs[t] EXCEPT !.pc = "done", !.err = Nil],
                           ClientState, window)
       ELSE RequestBecomes(t,
               [reqs[t] EXCEPT !.pc = IF Terminate(handler)
                                      THEN "panicked" ELSE "done",
                               !.result = ZeroResult],
               Shutdown(ClientState), window)

\* The caller takes the outcome.
ReqReturn(t) ==
    /\ Serving
    /\ reqs[t].pc = "done"
    /\ RequestBecomes(t, IdleRequest, ClientState, window)

\* The TTL of the entry of id elapses: a new TTL period of id begins.
RequestExpire(id) ==
    /\ Serving
    /\ cache[id] # <<>>
    /\ cache' = [cache EXCEPT ![id] = <<>>]
    /\ window' = [window EXCEPT ![id] = 0]
    /\ UNCHANGED <<OrganizationIDs, IsGlobal, cachedValue, handler, started,
                   cancel, refreshCtx, lastStored, last, mu, callers, reqs,
                   served>>
    /\ UNCHANGED lifecycleVars

\* The accesses to shared state the next step of goroutine t makes: the
\* location, whether it is written, and the mutex held meanwhile ("" for
\* none).  The ristretto cache synchronises its own Get and SetWithTTL;
\* cache.Manager has no mutex around cachedValue; refresh.Manager.Shutdown
\* holds m.mu.
Accesses(t) ==
    IF reqs[t].pc = "Get"
    THEN {[loc |-> "cache", write |-> FALSE, lock |-> "ristretto"]}
    ELSE IF reqs[t].pc = "SetWithTTL"
    THEN {[loc |-> "cache", write |-> TRUE, lock |-> "ristretto"]}
    ELSE IF reqs[t].pc = "cachedValue"
    THEN {[loc |-> "cachedValue", write |-> TRUE, lock |-> ""]}
    ELSE IF reqs[t].pc = "handleAPIError"
    THEN IF reqs[t].err.api /\ reqs[t].err.StatusCode >= 400
                            /\ reqs[t].err.StatusCode < 500
         THEN {[loc |-> "started", write |-> TRUE, lock |-> "m.mu"]}
         ELSE IF (reqs[t].err.api /\ reqs[t].err.StatusCode >= 500)
                    \/ IsConnectionError(reqs[t].err)
         THEN {[loc |-> "cachedValue", write |-> FALSE, lock |-> ""]}
         ELSE {}
    ELSE IF reqs[t].pc = "afterLoop" /\ ~reqs[t].anyValid
    THEN {[loc |-> "started", write |-> TRUE, lock |-> "m.mu"]}
    ELSE {}

\* A multi-organization client with the handler the application installed.
RequestInit ==
    /\ Init
    /\ OrganizationIDs = MultiOrgIDs

RequestNext ==
    \/ \E t \in 1..NumRequests : \E orgID \in ServedIDs : ReqBegin(t, orgID)
    \/ \E t \in 1..NumRequests : ReqBeginAll(t)
    \/ \E t \in 1..NumRequests : ReqGet(t)
    \/ \E t \in 1..NumRequests : \E resp \in RequestAnswers : ReqCall(t, resp)
    \/ \E t \in 1..NumRequests : ReqSetWithTTL(t)
    \/ \E t \in 1..NumRequests : ReqCachedValue(t)
    \/ \E t \in 1..NumRequests : ReqHandleAPIError(t)
    \/ \E t \in 1..NumRequests : ReqAfterLoop(t)
    \/ \E t \in 1..NumRequests : ReqReturn(t)
    \/ \E id \in CacheKeys : RequestExpire(id)

RequestSpec == RequestInit /\ [][RequestNext]_vars

(***************************************************************************)
(* The transport adapters serving requests: the Fiber middleware and the   *)
(* two gRPC interceptors.  A request carries the values of the header      *)
(* X-Organization-ID (none when the header is absent); a gRPC request may  *)
(* come without metadata.  served is the decision on the last request:     *)
(* next says the request was handed to the next handler.                   *)
(***************************************************************************)
ErrMissingOrgIDHeader ==
    [api |-> FALSE, StatusCode |-> 0, net |-> FALSE, text |-> <<"LCS-0010">>]

ErrUnknownOrgIDHeader ==
    [api |-> FALSE, StatusCode |-> 0, net |-> FALSE, text |-> <<"LCS-0011">>]

ErrOrgLicenseInvalid ==
    [api |-> FALSE, StatusCode |-> 0, net |-> FALSE, text |-> <<"LCS-0013">>]

ErrOrgLicenseValidationFail ==
    [api |-> FALSE, StatusCode |-> 0, net |-> FALSE, text |-> <<"LCS-0012">>]

\* ValidateBusinessError: the request errors of its map become a
\* ValidationError with the code of the error, any other error is returned
\* as it is.
ValidateBusinessError(err) ==
    IF err \in {ErrMissingOrgIDHeader, ErrUnknownOrgIDHeader,
                ErrOrgLicenseValidationFail, ErrOrgLicenseInvalid}
    THEN [type |-> "ValidationError", Code |-> err.text[1]]
    ELSE [type |-> "error", Code |-> ""]

\* WithError: the response by the type of the error, its HTTP status and
\* the code in its body; an error of no known type is answered as an
\* internal server error (ValidateInternalError, LCS-0001).
WithError(e) ==
    IF e.type = "EntityNotFoundError"
    THEN [status |-> 404, lcs |-> e.Code]
    ELSE IF e.type = "EntityConflictError"
    THEN [status |-> 409, lcs |-> e.Code]
    ELSE IF e.type = "ValidationError"
    THEN [status |-> 400, lcs |-> e.Code]
    ELSE IF e.type = "UnprocessableOperationError"
    THEN [status |-> 422, lcs |-> e.Code]
    ELSE IF e.type = "UnauthorizedError"
    THEN [status |-> 401, lcs |-> e.Code]
    ELSE IF e.type = "ForbiddenError"
    THEN [status |-> 403, lcs |-> e.Code]
    ELSE [status |-> 500, lcs |-> "LCS-0001"]

\* The values of the organization header a request may carry.
HeaderValues ==
    {<<>>, <<"">>, <<"a">>, <<"b">>, <<"zzz">>, <<"zzz", "a">>}

\* What the authority answers to the validation made for a request.
ServeAnswers == {r \in Responses : r.cause # "context deadline exceeded"}

\* validateOrganizationID: an empty or unknown identifier is refused, a
\* configured one is validated cache-first.
validateOrganizationID(cs, h, orgIDs, orgID, resp) ==
    IF orgID = ""
    THEN Out(cs, ZeroResult, ErrMissingOrgIDHeader, <<>>, FALSE, 0)
    ELSE IF ~ContainsOrganizationID(orgIDs, orgID)
    THEN Out(cs, ZeroResult, ErrUnknownOrgIDHeader, <<>>, FALSE, 0)
    ELSE ValidateWithOrgID(cs, h, orgIDs, orgID, resp)

\* The decision of an adapter: o is what the validation gave, code the
\* rejection ("" for none); an HTTP rejection is the response WithError
\* writes for the business error of o.err.
Decision(o, code) ==
    [cs |-> o.cs, calls |-> o.calls, result |-> o.result, err |-> o.err,
     code |-> code,
     status |-> IF code = "WithError"
                THEN WithError(ValidateBusinessError(o.err)).status
                ELSE 0,
     lcs |-> IF code = "WithError"
             THEN WithError(ValidateBusinessError(o.err)).lcs
             ELSE "",
     next |-> (code = "" /\ ~o.panicked),
     panicked |-> o.panicked]

\* processMultiOrgPluginRequest that does not test the result.
processMultiOrgPluginRequest_NoResultTest(cs, h, orgIDs, header, resp) ==
    LET o == validateOrganizationID(cs, h, orgIDs,
                                    IF header = <<>> THEN "" ELSE header[1],
                                    resp)
    IN
    IF o.panicked
    THEN Decision(o, "")
    ELSE IF o.err # Nil
    THEN Decision(o, "WithError")
    ELSE Decision(o, "")

\* processMultiOrgPluginRequest: ctx.Get gives "" for an absent header.
processMultiOrgPluginRequest(cs, h, orgIDs, header, resp) ==
    LET o == validateOrganizationID(cs, h, orgIDs,
                                    IF header = <<>> THEN "" ELSE header[1],
                                    resp)
    IN
    IF o.panicked
    THEN Decision(o, "")
    ELSE IF o.err # Nil
    THEN Decision(o, "WithError")
    ELSE IF ~o.result.Valid /\ ~o.result.ActiveGracePeriod
    THEN Decision([o EXCEPT !.err = ErrOrgLicenseInvalid], "WithError")
    ELSE Decision(o, "")

\* validateGRPCOrganizationID: md says the context carries metadata.
validateGRPCOrganizationID(cs, h, orgIDs, md, header, resp) ==
    LET o == validateOrganizationID(cs, h, orgIDs,
                                    IF header = <<>> THEN "" ELSE header[1],
                                    resp)
    IN
    IF ~md
    THEN Decision(Out(cs, ZeroResult, Nil, <<>>, FALSE, 0), "Internal")
    ELSE IF Len(header) = 0
    THEN Decision(Out(cs, ZeroResult, ErrMissingOrgIDHeader, <<>>, FALSE, 0),
                  "InvalidArgument")
    ELSE IF o.panicked
    THEN Decision(o, "")
    ELSE IF o.err = ErrUnknownOrgIDHeader
    THEN Decision(o, "InvalidArgument")
    ELSE IF o.err # Nil
    THEN Decision(o, "PermissionDenied")
    ELSE IF ~o.result.Valid /\ ~o.result.ActiveGracePeriod
    THEN Decision([o EXCEPT !.err = ErrOrgLicenseInvalid], "PermissionDenied")
    ELSE Decision(o, "")

\* In global mode the adapters hand every request on without validating.
GlobalDecision(cs) == Decision(Out(cs, ZeroResult, Nil, <<>>, FALSE, 0), "")

\* Adapter a decided d on the request.
Serves(a, md, header, resp, d) ==
    /\ served' = [adapter |-> a, md |-> md, header |-> header,
                  resp |-> IF d.calls = 0 THEN <<>> ELSE <<resp>>,
                  calls |-> d.calls, result |-> d.result, err |-> d.err,
                  code |-> d.code, status |-> d.status, lcs |-> d.lcs,
                  next |-> d.next, panicked |-> d.panicked]
    /\ Leaves(d.cs)
    /\ UNCHANGED <<OrganizationIDs, IsGlobal, handler, last, mu, callers,
                   reqs, window>>
    /\ UNCHANGED lifecycleVars

\* The handler Middleware() returned serves a request.
ServeHTTP(header, resp) ==
    /\ ~served.panicked
    /\ \E d \in {IF IsGlobal
                 THEN GlobalDecision(ClientState)
                 ELSE processMultiOrgPluginRequest(ClientState, handler,
                         OrganizationIDs, header, resp)} :
          Serves("Middleware", TRUE, header, resp, d)

\* The unary interceptor serves a request: processGRPCMultiOrgRequest.
ServeUnary(md, header, resp) ==
    /\ ~served.panicked
    /\ \E d \in {IF IsGlobal
                 THEN GlobalDecision(ClientState)
                 ELSE validateGRPCOrganizationID(ClientState, handler,
                         OrganizationIDs, md, header, resp)} :
          Serves("UnaryServerInterceptor", md, header, resp, d)

\* The stream interceptor serves a request.
ServeStream(md, header, resp) ==
    /\ ~served.panicked
    /\ \E d \in {IF IsGlobal
                 THEN GlobalDecision(ClientState)
                 ELSE validateGRPCOrganizationID(ClientState, handler,
                         OrganizationIDs, md, header, resp)} :
          Serves("StreamServerInterceptor", md, header, resp, d)

\* The TTL of the entry of id elapses.
ServeExpire(id) ==
    /\ ~served.panicked
    /\ cache[id] # <<>>
    /\ cache' = [cache EXCEPT ![id] = <<>>]
    /\ UNCHANGED servingVars
    /\ UNCHANGED <<OrganizationIDs, IsGlobal, cachedValue, handler, started,
                   cancel, refreshCtx, lastStored, last>>
    /\ UNCHANGED lifecycleVars

\* The client of a LicenseClient, global or for several organizations.
MiddlewareInit ==
    /\ Init
    /\ OrganizationIDs \in {<<GlobalPluginValue>>, MultiOrgIDs}

MiddlewareNext ==
    \/ \E h \in Handlers : RefreshSetHandler(h)
    \/ \E header \in HeaderValues : \E resp \in ServeAnswers :
          ServeHTTP(header, resp)
    \/ \E md \in BOOLEAN : \E header \in HeaderValues :
          \E resp \in ServeAnswers : ServeUnary(md, header, resp)
    \/ \E md \in BOOLEAN : \E header \in HeaderValues :
          \E resp \in ServeAnswers : ServeStream(md, header, resp)
    \/ \E id \in CacheKeys : ServeExpire(id)

MiddlewareSpec == MiddlewareInit /\ [][MiddlewareNext]_vars

(***************************************************************************)
(* The verifier alone: api.Client.validateForOrganization applied to every *)
(* answer of the authority, the call being noted in `last`.                *)
(***************************************************************************)
\* The status codes a response carries here: the ends of every class and
\* some codes inside.
VerifierStatuses ==
    {100, 199, 200, 201, 204, 299, 300, 302, 399, 400, 403, 404, 499, 500,
     503, 599}

\* What httpClient.Do can give the verifier: a response of any status, with
\* a body that decodes to a result or one that does not, or a transport
\* failure.
VerifierResponses ==
    {[kind |-> "http", status |-> s, body |-> r, cause |-> ""] :
        s \in VerifierStatuses, r \in AuthorityResults}
      \cup {[kind |-> "undecodable", status |-> s, body |-> ZeroResult,
              cause |-> ""] : s \in VerifierStatuses}
      \cup {[kind |-> "transport", status |-> 0, body |-> ZeroResult,
              cause |-> c] : c \in TransportCauses}

\* One call of validateForOrganization for orgID, answered by resp.
DoValidateForOrganization(orgID, resp) ==
    /\ last' = [NoCall EXCEPT
                  !.op = "validateForOrganization",
                  !.orgID = orgID,
                  !.resp = <<resp>>,
                  !.result = validateForOrganization(resp).result,
                  !.err = validateForOrganization(resp).err,
                  !.calls = 1]
    /\ UNCHANGED servingVars
    /\ UNCHANGED <<OrganizationIDs, IsGlobal, cache, cachedValue, handler,
                   started, cancel, refreshCtx, lastStored>>
    /\ UNCHANGED lifecycleVars

VerifierNext ==
    \E orgID \in {OrganizationIDs[i] : i \in 1..Len(OrganizationIDs)} :
        \E resp \in VerifierResponses :
            DoValidateForOrganization(orgID, resp)

VerifierSpec == Init /\ [][VerifierNext]_vars

(***************************************************************************)
(* The log lines of a validated result: logValidResult applied to results  *)
(* of every kind and expiry, the lines being noted in `last`.  A line is   *)
(* the level of the logger call and the fixed words of its format.         *)
(***************************************************************************)
DefaultMinExpiryDaysToNormalWarn == 30
DefaultMinExpiryDaysToUrgentWarn == 7
DefaultGraceExpiryDaysToCriticalWarn == 7
DefaultTrialExpiryDaysToWarn == 2
DefaultLicenseExpiredDays == 0

\* The largest expiryDaysLeft of the results logged here.
MaxExpiryDays == 31

\* The results logValidResult is applied to: every combination of the
\* flags, with expiryDaysLeft from one day past expiry on.
LogResults ==
    [Valid : BOOLEAN, ExpiryDaysLeft : (0 - 1)..MaxExpiryDays,
     ActiveGracePeriod : BOOLEAN, IsTrial : BOOLEAN]

Line(level, words) == [level |-> level, words |-> words]

logTrialLicense(expiryDays) ==
    IF expiryDays = DefaultLicenseExpiredDays
    THEN Line("Warn", "TRIAL LICENSE: trial expires today")
    ELSE IF expiryDays <= DefaultTrialExpiryDaysToWarn
    THEN Line("Warn", "TRIAL LICENSE: trial expires in %d days")
    ELSE Line("Info", "TRIAL LICENSE: is using a trial license")

\* logValidLicense whose urgent threshold excludes the day of the threshold.
logValidLicense_StrictUrgent(expiryDays) ==
    IF expiryDays < DefaultMinExpiryDaysToUrgentWarn
    THEN Line("Warn", "WARNING: license expires in %d days. Contact")
    ELSE IF expiryDays <= DefaultMinExpiryDaysToNormalWarn
    THEN Line("Warn", "license expires in %d days")
    ELSE Line("Info", "has a valid license")

logValidLicense(expiryDays) ==
    IF expiryDays <= DefaultMinExpiryDaysToUrgentWarn
    THEN Line("Warn", "WARNING: license expires in %d days. Contact")
    ELSE IF expiryDays <= DefaultMinExpiryDaysToNormalWarn
    THEN Line("Warn", "license expires in %d days")
    ELSE Line("Info", "has a valid license")

logGracePeriod(expiryDays) ==
    IF expiryDays <= DefaultGraceExpiryDaysToCriticalWarn
    THEN Line("Warn", "CRITICAL: grace period ends - will terminate")
    ELSE Line("Warn", "WARNING: expired but grace period is active")

\* logValidResult: the switch on the licence, then the grace period.
logValidResult(res) ==
    (IF res.Valid /\ res.IsTrial
     THEN <<logTrialLicense(res.ExpiryDaysLeft)>>
     ELSE IF res.Valid
     THEN <<logValidLicense(res.ExpiryDaysLeft)>>
     ELSE <<>>)
      \o (IF res.ActiveGracePeriod
          THEN <<logGracePeriod(res.ExpiryDaysLeft)>>
          ELSE <<>>)

\* One call of logValidResult.
DoLogValidResult(res) ==
    /\ last' = [NoCall EXCEPT
                  !.op = "logValidResult",
                  !.result = res,
                  !.logs = logValidResult(res)]
    /\ UNCHANGED servingVars
    /\ UNCHANGED <<OrganizationIDs, IsGlobal, cache, cachedValue, handler,
                   started, cancel, refreshCtx, lastStored>>
    /\ UNCHANGED lifecycleVars

LogNext == \E res \in LogResults : DoLogValidResult(res)

LogSpec == Init /\ [][LogNext]_vars

(***************************************************************************)
(* Properties                                                              *)
(***************************************************************************)
\* The authority answered the call with a 5xx.
IsServerError(resp) ==
    resp.kind = "http" /\ resp.status >= 500 /\ resp.status < 600

\* The authority answered the call with a 4xx.
IsClientError(resp) ==
    resp.kind = "http" /\ resp.status >= 400 /\ resp.status < 500

\* The call failed below HTTP.
IsTransportError(resp) == resp.kind = "transport"

\* The authority answered 200 with a result that is neither valid nor in an
\* active grace period.
IsUnusableAnswer(resp) ==
    /\ resp.kind = "http"
    /\ resp.status = 200
    /\ ~resp.body.Valid
    /\ ~resp.body.ActiveGracePeriod

\* A result is usable iff valid or in an active grace period.
Usable(r) == r.Valid \/ r.ActiveGracePeriod

\* The synthetic grace result.
SyntheticGrace ==
    [Valid |-> TRUE, ExpiryDaysLeft |-> 7, ActiveGracePeriod |-> TRUE,
     IsTrial |-> FALSE]

\* The last call was a per-request validation that called the authority.
RequestCalled == last.op = "ValidateWithOrgID" /\ last.resp # <<>>

\* The last call was an aggregate validation.
Aggregate == last.op = "Validate"

\* C1: a per-request validation of a configured scope whose cache entry has
\* not expired makes no call to the authority and returns exactly the result
\* last stored for that scope, with a nil error.
C1_CacheHitReturnsStored ==
    (/\ last.op = "ValidateWithOrgID"
     /\ ContainsOrganizationID(OrganizationIDs, last.orgID)
     /\ last.hit)
        => /\ last.calls = 0
           /\ ~last.panicked
           /\ last.err = Nil
           /\ last.preStored # <<>>
           /\ last.result = last.preStored[1]

\* C1 happens: a request for "b" was answered from the cache with a valid
\* result.
C1_Witness ==
    /\ last.op = "ValidateWithOrgID"
    /\ last.orgID = "b"
    /\ last.hit
    /\ last.result.Valid

C3_ServerErrorReturnsOwnPrior ==
    /\ (/\ RequestCalled
        /\ IsServerError(last.resp[1])
        /\ last.preStored # <<>>
        /\ Usable(last.preStored[1]))
          => (last.err = Nil /\ last.result = last.preStored[1])
    /\ Aggregate =>
          \A i \in 1..Len(last.visited) :
             (/\ IsServerError(last.visited[i].resp)
              /\ last.visited[i].preStored # <<>>
              /\ Usable(last.visited[i].preStored[1]))
                => /\ last.visited[i].err = Nil
                   /\ last.visited[i].result = last.visited[i].preStored[1]

TransientOutcome(server, prior, result, err) ==
    IF prior # <<>>
    THEN err = Nil /\ result = prior[1]
    ELSE IF server
    THEN err = Nil /\ result = SyntheticGrace
    ELSE err # Nil /\ result = ZeroResult

C5_ClientErrorTerminates ==
    Len(OrganizationIDs) = 1 =>
       /\ (RequestCalled /\ IsClientError(last.resp[1]))
             => /\ last.reasons # <<>>
                /\ Contains(last.reasons[1], "client error")
                /\ (last.panicked \/ last.err # Nil)
       /\ (Aggregate /\ last.visited # <<>>
             /\ IsClientError(last.visited[1].resp))
             => /\ last.reasons # <<>>
                /\ Contains(last.reasons[1], "client error")
                /\ (last.panicked \/ last.err # Nil)

\* C5 happens: the global licence got a 4xx under a handler that returns,
\* and the validation returned an error.
C5_Witness ==
    /\ IsGlobal
    /\ RequestCalled
    /\ IsClientError(last.resp[1])
    /\ handler = "custom"
    /\ last.err # Nil

\* C6 (as claimed): with one configured scope, a validation whose call is
\* answered 200 with an unusable result invokes the termination handler,
\* returns an error and stores nothing.
C6_UnusableTerminates ==
    Len(OrganizationIDs) = 1 =>
       /\ (RequestCalled /\ IsUnusableAnswer(last.resp[1]))
             => /\ last.reasons # <<>>
                /\ (last.panicked \/ last.err # Nil)
                /\ last.stored = <<>>
       /\ (Aggregate /\ last.visited # <<>>
             /\ IsUnusableAnswer(last.visited[1].resp))
             => /\ last.reasons # <<>>
                /\ (last.panicked \/ last.err # Nil)
                /\ last.stored = <<>>

\* Several scopes are configured.
MultiScope == Len(OrganizationIDs) > 1

\* The scope ended usable: a nil error and a usable result.
EndedUsable(seen) == seen.err = Nil /\ Usable(seen.result)

\* The scope was answered with a 4xx or with an unusable result.
AnsweredFailing(seen) ==
    IsClientError(seen.resp) \/ IsUnusableAnswer(seen.resp)

\* The organization IDs of the scopes visited, in the order visited.
VisitedIDs == [i \in 1..Len(last.visited) |-> last.visited[i].orgID]

\* The index of the last visited scope that ended usable (0 if none).
LastUsableIndex ==
    LET I == {i \in 1..Len(last.visited) : EndedUsable(last.visited[i])} IN
    IF I = {} THEN 0 ELSE CHOOSE i \in I : \A j \in I : j <= i

\* C7 (as claimed): in multi-scope mode, an aggregate validation in which
\* some scope ended usable returns a nil error, whatever the other scopes
\* were answered.
C7_AnyUsableSucceeds ==
    (MultiScope /\ Aggregate
       /\ \E i \in 1..Len(last.visited) : EndedUsable(last.visited[i]))
        => (~last.panicked /\ last.err = Nil)

\* C8 (as claimed): in multi-scope mode, a 4xx for one scope neither invokes
\* the termination handler nor shuts the refresher down, and the iteration
\* goes on to the remaining scopes.
C8_ClientErrorNotFatalInMulti ==
    (MultiScope /\ Aggregate) =>
       \A i \in 1..Len(last.visited) :
          IsClientError(last.visited[i].resp)
             => /\ ~last.visited[i].terminated
                /\ ~last.visited[i].shutdown
                /\ Len(last.visited) = Len(OrganizationIDs)

\* C9 (as claimed): in multi-scope mode, an aggregate validation in which
\* every scope was answered with a 4xx or an unusable result invokes the
\* termination handler exactly once, with a reason that names every failing
\* scope.
C9_AllFailTerminatesOnce ==
    (/\ MultiScope /\ Aggregate
     /\ last.panicked \/ Len(last.visited) = Len(OrganizationIDs)
     /\ \A i \in 1..Len(last.visited) : AnsweredFailing(last.visited[i]))
        => /\ Len(last.reasons) = 1
           /\ \A i \in 1..Len(last.visited) :
                 Contains(last.reasons[1], last.visited[i].orgID)

\* C10 (as claimed): in multi-scope mode the aggregate validation visits
\* every configured scope in configuration order, and when it succeeds it
\* returns the result of the last scope found usable.
C10_VisitsAllReturnsLastUsable ==
    (MultiScope /\ Aggregate) =>
       /\ VisitedIDs = OrganizationIDs
       /\ (~last.panicked /\ last.err = Nil /\ LastUsableIndex > 0)
             => last.result = last.visited[LastUsableIndex].result

\* The tasks whose context is not cancelled.
LiveTasks == {k \in 1..Len(tasks) : tasks[k].ctx = "live"}

\* C11: Start calls without a Shutdown in between leave exactly one refresh
\* task: at most one task has a live context, a started manager has exactly
\* one, and Start on a started manager changes nothing.  Shutdown on a
\* manager that is not started (never started, or shut down) changes no
\* state and cancels nothing.
C11_StartShutdownIdempotent ==
    /\ Cardinality(LiveTasks) <= 1
    /\ started => /\ Cardinality(LiveTasks) = 1
                  /\ Start(ClientState) = ClientState
    /\ ~started => /\ Shutdown(ClientState) = ClientState
                   /\ LiveTasks = {}

\* C11 happens: the manager was started, shut down and started again; the
\* first task has returned and the second one runs alone.
C11_Witness ==
    /\ started
    /\ Len(tasks) = 2
    /\ tasks[1].pc = "exited"
    /\ tasks[2].pc = "select"
    /\ LiveTasks = {2}

\* C12: however many adapters are built from one LicenseClient, and in
\* whatever order their constructors interleave, the startup validation runs
\* at most once and one refresh goroutine at most is launched; once a
\* constructor has returned after a startup validation that did not panic,
\* the validation has run exactly once and the refresher was launched
\* exactly once, and when that launch has run Start there is exactly one
\* refresh task.  A startup validation that panicked launched nothing.
C12_StartupOnce ==
    /\ startup.runs <= 1
    /\ startup.launches <= 1
    /\ Len(tasks) <= 1
    /\ ((\E a \in Adapters : adapters[a] = "built") /\ ~startup.panicked)
          => (startup.runs = 1 /\ startup.launches = 1)
    /\ (startup.launches = 1 /\ goStart = 0) => Len(tasks) = 1
    /\ startup.panicked => (startup.launches = 0 /\ tasks = <<>>)

\* C12 happens: the three adapters are built, the startup validation ran
\* once and the one refresh task waits for its ticker.
C12_Witness ==
    /\ \A a \in Adapters : adapters[a] = "built"
    /\ startup.runs = 1
    /\ Len(tasks) = 1
    /\ tasks[1].pc = "select"

\* C13: the refresher is launched, its ticker created and its cycles begun
\* only after the one-time startup validation has run to its end without a
\* panic: while the startup validation has not run or is running, no launch
\* is pending and no refresh task exists.
C13_StartupBeforeRefresh ==
    (goStart > 0 \/ tasks # <<>>)
        => /\ initOnce = "done"
           /\ startup.runs = 1
           /\ ~startup.panicked

\* C13 happens: after the startup validation, the refresh task has begun a
\* cycle.
C13_Witness ==
    /\ initOnce = "done"
    /\ Len(tasks) = 1
    /\ tasks[1].passes = 1
    /\ tasks[1].pc = "attempt"

\* C14: after Start the refresh task performs one validation pass at once,
\* before the first interval elapses, and one more on every tick: a task
\* that waits on its ticker has begun one pass more than it has taken ticks.
C14_ImmediateFirstPass ==
    \A k \in 1..Len(tasks) :
        tasks[k].pc = "select" => tasks[k].passes = tasks[k].taken + 1

\* C16: once Shutdown has returned, the refresh task begins no further
\* validation pass, also when a tick is pending at the cancellation: no task
\* has taken a tick under a context that was already cancelled.
C16_NoPassAfterShutdown ==
    \A k \in 1..Len(tasks) : ~tasks[k].late

\* C17: a Start that follows a Shutdown is a no-op: no refresh task is
\* created once an earlier one has been cancelled.
C17_NoRestartAfterShutdown ==
    \A k \in 1..Len(tasks) : ~tasks[k].restart

\* C18: one call of ValidateWithRetry makes at most 3 validation attempts;
\* after the first attempt that succeeds it has returned nil and is in no
\* further attempt, parent context check or backoff; it returns a non-nil
\* error only when no attempt succeeded.
C18_RetryAtMostThree ==
    \A k \in 1..Len(tasks) :
        LET t == tasks[k] IN
        /\ t.n <= 3
        /\ t.succ => /\ t.ret = <<Nil>>
                     /\ t.pc \in {"select", "exited"}
        /\ (t.ret # <<>> /\ t.ret[1] # Nil) => ~t.succ
        /\ (t.ret # <<>> /\ t.ret[1] = Nil) => t.succ

\* C18 happens: a call returned nil at the success of its second attempt.
C18_Witness ==
    \E k \in 1..Len(tasks) :
        /\ tasks[k].n = 2
        /\ tasks[k].succ
        /\ tasks[k].ret = <<Nil>>

\* The step of task k out of the parent context check of ValidateWithRetry
\* under a context that is done: the call returns the error of the last
\* attempt and has made no further attempt.
StopsAtParentDone(k) ==
    (/\ tasks[k].pc = "ctxcheck"
     /\ tasks[k].ctx = "cancelled"
     /\ tasks'[k].pc # tasks[k].pc)
        => /\ tasks'[k].pc = "select"
           /\ tasks'[k].ret = <<tasks[k].lastErr>>
           /\ tasks[k].lastErr # Nil
           /\ tasks'[k].n = tasks[k].n

\* The step of task k out of the backoff sleep of ValidateWithRetry under a
\* context that is done: the call returns the cancellation error, which is
\* not the error of the attempt, and has made no further attempt.
StopsInBackoff(k) ==
    (/\ tasks[k].pc = "sleep"
     /\ tasks[k].ctx = "cancelled"
     /\ tasks'[k].pc # tasks[k].pc)
        => /\ tasks'[k].pc = "select"
           /\ tasks'[k].ret = <<ContextCanceled>>
           /\ tasks'[k].ret # <<tasks[k].lastErr>>
           /\ tasks'[k].n = tasks[k].n

\* C19: in ValidateWithRetry, after a failed attempt, a parent context that
\* is already done ends the call with the error of the last attempt, and a
\* parent context cancelled during the backoff sleep ends it with the
\* cancellation error; in both cases no further attempt is made.
C19_RetryHonoursCancellation ==
    [][\A k \in 1..Len(tasks) : StopsAtParentDone(k) /\ StopsInBackoff(k)]_vars

\* C19 happens: one call ended at the parent context check with the error of
\* its attempt, a later one ended in its backoff with the cancellation error.
C19_Witness ==
    /\ Len(tasks) = 2
    /\ tasks[1].how = "parentDone"
    /\ tasks[1].ret = <<tasks[1].lastErr>>
    /\ tasks[2].how = "cancelledInSleep"
    /\ tasks[2].ret = <<ContextCanceled>>
    /\ tasks[2].n = 1

\* C20: one per-request validation (ValidateWithOrgID) makes at most one
\* call to the authority, whatever the answer, so that no backoff between
\* two calls takes place in it; a request answered from the cache or
\* refused for its organization ID makes none.
C20_PerRequestSingleCall ==
    last.op = "ValidateWithOrgID"
        => /\ last.calls <= 1
           /\ (last.hit \/ ~ContainsOrganizationID(OrganizationIDs, last.orgID))
                 => last.calls = 0

\* C20 happens: a request missed the cache, its one call to the authority
\* failed and the error was returned after that one call.
C20_Witness ==
    /\ last.op = "ValidateWithOrgID"
    /\ ~last.hit
    /\ last.calls = 1
    /\ last.err # Nil

\* The context of the refresh task k has been cancelled by Shutdown.
Cancelled(k) == k <= Len(tasks) /\ tasks[k].ctx = "cancelled"

\* The refresh task k is gone: its goroutine returned, or the process ended
\* on the panic of a termination handler.
Gone(k) == k <= Len(tasks) /\ (tasks[k].pc = "exited" \/ ~Alive)

\* C15: under a fair scheduler a refresh task whose context Shutdown has
\* cancelled exits in the end, wherever it was at the cancellation: before
\* its loop, waiting on the ticker, inside a validation attempt or inside
\* the backoff between two attempts.
C15_ShutdownEndsTask ==
    \A k \in 1..MaxTasks : [](Cancelled(k) => <>Gone(k))

\* C15 happens: Shutdown returned while the task was in its backoff, and the
\* task has left the backoff on the cancellation and exited.
C15_Witness ==
    /\ ~started
    /\ \E k \in 1..Len(tasks) :
          /\ tasks[k].pc = "exited"
          /\ tasks[k].how = "cancelledInSleep"

\* The step is a per-request validation for an identifier that is not
\* configured.
UnknownScopeStep ==
    /\ last'.op = "ValidateWithOrgID"
    /\ ~ContainsOrganizationID(OrganizationIDs, last'.orgID)

\* The step is a per-request validation for a configured identifier.
KnownScopeStep ==
    /\ last'.op = "ValidateWithOrgID"
    /\ ContainsOrganizationID(OrganizationIDs, last'.orgID)

\* C22: a per-request validation for an identifier outside the configured
\* set returns the zero result with the unknown-scope error, calls neither
\* the authority nor the termination handler, and leaves the TTL entries,
\* the backup copy and the refresher as they were; no validation of a
\* configured identifier returns that error.
C22_UnknownScopeRejected ==
    [][/\ UnknownScopeStep
          => /\ last'.err = UnknownScopeError(last'.orgID)
             /\ last'.result = ZeroResult
             /\ last'.calls = 0
             /\ last'.reasons = <<>>
             /\ ~last'.panicked
             /\ last'.stored = <<>>
             /\ cache' = cache
             /\ cachedValue' = cachedValue
             /\ started' = started
       /\ KnownScopeStep
          => \A id \in RequestIDs : last'.err # UnknownScopeError(id)]_vars

\* C22 happens: while results are cached for "a", a request for "zzz" was
\* refused.
C22_Witness ==
    /\ last.op = "ValidateWithOrgID"
    /\ last.orgID = "zzz"
    /\ ~ContainsOrganizationID(OrganizationIDs, "zzz")
    /\ cache["a"] # <<>>
    /\ cachedValue # <<>>
    /\ last.err = UnknownScopeError("zzz")

\* C23: every result the cache holds, in a TTL entry or in the backup copy,
\* is valid or in an active grace period, and so is every result the last
\* call handed to Store.
C23_OnlyUsableStored ==
    /\ \A id \in CacheKeys : cache[id] # <<>> => Usable(cache[id][1])
    /\ cachedValue # <<>> => Usable(cachedValue[1])
    /\ \A i \in 1..Len(last.stored) : Usable(last.stored[i].result)

\* C24: for every configured scope the fallback lookup gives the last result
\* stored for that scope, whether or not its TTL entry is still there, and
\* nothing when no result was ever stored for it.
C24_FallbackPerScope ==
    \A i \in 1..Len(OrganizationIDs) :
        GetLastResult(ClientState) = lastStored[OrganizationIDs[i]]

\* The call of the last per-request validation ended because the deadline
\* of its context passed.
RequestTimedOut ==
    /\ RequestCalled
    /\ IsTransportError(last.resp[1])
    /\ last.resp[1].cause = "context deadline exceeded"

\* C27: a per-request validation whose call to the authority was cut short
\* by its context returns an error, never a result with a nil error.
C27_CancelledSurfacesError ==
    RequestTimedOut => last.err # Nil

\* C29: in an aggregate validation of a multi-organization client, a scope
\* whose call fails with a 5xx ends as a per-request validation would (the
\* result last stored, or the synthetic grace result when nothing was ever
\* stored, with a nil error and no termination), is counted as usable, and
\* the scopes after it are visited.
C29_ServerErrorScopeUsable ==
    (Aggregate /\ ~IsGlobal) =>
        \A i \in 1..Len(last.visited) :
            IsServerError(last.visited[i].resp)
               => /\ TransientOutcome(TRUE, last.visited[i].preCachedValue,
                                      last.visited[i].result,
                                      last.visited[i].err)
                  /\ ~last.visited[i].terminated
                  /\ last.visited[i].usable
                  /\ i < Len(OrganizationIDs) => Len(last.visited) > i

\* The step is the validation of an attempt of ValidateWithRetry in the
\* refresh goroutine k.
AttemptStep(k) ==
    /\ tasks[k].pc = "attempt"
    /\ tasks'[k].n = tasks[k].n + 1

\* The answers the authority may give to the calls of one attempt.
AttemptAnswers ==
    [1..Len(OrganizationIDs) -> RefreshResponses \cup {CancelledResponse}]

\* C28: the validation of every attempt of a refresh cycle calls the
\* authority, for the global licence as for several organizations, whatever
\* the cache holds.
C28_RefreshCallsAuthority ==
    [][\A k \in 1..Len(tasks) :
          AttemptStep(k)
             => \A resps \in AttemptAnswers :
                   RetryValidate(ClientState, handler, OrganizationIDs,
                                 IsGlobal, resps).calls >= 1]_vars

\* The handlers installed so far or being installed: the default one and
\* those passed to SetHandler.
Installable ==
    {"DefaultHandler"}
        \cup {callers[u].arg : u \in {v \in 1..NumCallers :
                                        /\ callers[v].op = "SetHandler"
                                        /\ callers[v].arg # "nil"}}

\* Terminate call t has read the handler.
HasRead(t) ==
    /\ callers[t].op = "Terminate"
    /\ callers[t].pc \in {"RUnlock", "call", "returned", "panicked"}

\* The step is a call of SetHandler with a nil handler.
SetHandlerNilStep ==
    \E t \in 1..NumCallers :
        /\ callers[t].pc = "idle"
        /\ callers'[t].op = "SetHandler"
        /\ callers'[t].arg = "nil"

\* C25: whatever the interleaving of SetHandler and Terminate calls, the
\* handler a Terminate call reads is never nil and is the default handler or
\* one passed to SetHandler, read while no SetHandler is writing it; the
\* call invokes that handler once with its reason and no other; and
\* SetHandler(nil) changes neither the handler nor the mutex.
C25_TerminateSeesInstalledHandler ==
    /\ [](\A t \in 1..NumCallers :
            /\ HasRead(t)
                  => /\ callers[t].seen \in Installable
                     /\ callers[t].seen # "nil"
                     /\ ~callers[t].raced
            /\ (callers[t].op = "Terminate"
                  /\ callers[t].pc \in {"returned", "panicked"})
                  => callers[t].invoked = <<[handler |-> callers[t].seen,
                                             reason |-> callers[t].arg]>>
            /\ (callers[t].op = "Terminate"
                  /\ callers[t].pc \notin {"returned", "panicked"})
                  => callers[t].invoked = <<>>
            /\ handler \in Handlers)
    /\ [][SetHandlerNilStep => (handler' = handler /\ mu' = mu)]_vars

\* C25 happens: a Terminate call that began before a SetHandler held the
\* lock invoked the handler that SetHandler installed, while a SetHandler(nil)
\* had returned.
C25_Witness ==
    \E t, u, v \in 1..NumCallers :
        /\ callers[t].op = "Terminate"
        /\ callers[t].pc = "returned"
        /\ callers[t].invoked = <<[handler |-> "custom",
                                   reason |-> NoValidReason]>>
        /\ callers[u].op = "SetHandler"
        /\ callers[u].arg = "custom"
        /\ callers[v].op = "SetHandler"
        /\ callers[v].arg = "nil"
        /\ callers[v].pc = "returned"
        /\ handler = "custom"

\* C21: within one TTL period the per-request validations of a scope make
\* at most one call to the authority, whether they follow each other or run
\* at the same time, and whatever the authority answers.
C21_OneCallPerWindow ==
    \A id \in CacheKeys : window[id] <= 1

\* Two accesses race: the same location, one of them a write, and no mutex
\* held by both.
Races(x, y) ==
    /\ x.loc = y.loc
    /\ x.write \/ y.write
    /\ x.lock = "" \/ x.lock # y.lock

\* C26: in no reachable state are two goroutines about to access the cache
\* entries, the backup copy or the started flag of the refresher, one of
\* them writing, without a common mutex.
C26_NoUnsynchronisedAccess ==
    \A t, u \in 1..NumRequests :
        t # u => \A x \in Accesses(t) : \A y \in Accesses(u) : ~Races(x, y)

\* C30: a request served by an adapter of a multi-organization client is
\* handed to the next handler only if it carries an organization ID (for
\* gRPC, in its metadata), the first value of the header is a configured
\* organization ID, and the validation of that ID ended without error with
\* a result that is valid or in an active grace period; every other request
\* is rejected with an error.
C30_NextOnlyWhenLicensed ==
    (served.adapter # "" /\ ~IsGlobal) =>
        /\ served.next
              => /\ served.md
                 /\ served.header # <<>>
                 /\ served.header[1] # ""
                 /\ ContainsOrganizationID(OrganizationIDs, served.header[1])
                 /\ served.err = Nil
                 /\ served.result.Valid \/ served.result.ActiveGracePeriod
        /\ ~served.next => (served.panicked \/ served.code # "")

\* C30 happens: the stream interceptor handed on a request for "b" whose
\* licence is in its grace period, and the cache holds an entry for "a".
C30_Witness ==
    /\ ~IsGlobal
    /\ served.adapter = "StreamServerInterceptor"
    /\ served.header = <<"b">>
    /\ served.next
    /\ ~served.result.Valid
    /\ served.result.ActiveGracePeriod
    /\ cache["a"] # <<>>

\* C33: a refresh goroutine waiting in the backoff of ValidateWithRetry
\* waits 5 seconds after its first failed attempt and 10 seconds after its
\* second, and never waits after its third; an attempt begins with the
\* backoff 5 doubled once per attempt before it.
C33_BackoffFiveThenTen ==
    \A k \in 1..Len(tasks) :
        /\ tasks[k].pc = "sleep"
              => \/ tasks[k].i = 0 /\ tasks[k].n = 1 /\ tasks[k].backoff = 5
                 \/ tasks[k].i = 1 /\ tasks[k].n = 2 /\ tasks[k].backoff = 10
        /\ tasks[k].pc \in {"attempt", "ctxcheck"}
              => \/ tasks[k].i = 0 /\ tasks[k].backoff = 5
                 \/ tasks[k].i = 1 /\ tasks[k].backoff = 10
                 \/ tasks[k].i = 2 /\ tasks[k].backoff = 20
        /\ tasks[k].how = "exhausted" => tasks[k].n = 3

\* C33 happens: a goroutine waits 10 seconds after its second failed attempt,
\* and (another state) a pass ended after three failed attempts.
C33_Witness ==
    \E k \in 1..Len(tasks) :
        /\ tasks[k].pc = "sleep"
        /\ tasks[k].n = 2
        /\ tasks[k].backoff = 10
        /\ tasks[k].lastErr # Nil

\* C36: an aggregate validation that returns (the termination handler did
\* not abort) returns a nil error only if at least one configured scope was
\* found usable; with no usable scope the error is non-nil.
C36_NilErrorOnlyWhenUsable ==
    (Aggregate /\ ~last.panicked /\ last.err = Nil)
        => \E i \in 1..Len(last.visited) : last.visited[i].usable

\* The result has only isTrial set: not valid and in no active grace period.
TrialOnly(r) == r.IsTrial /\ ~r.Valid /\ ~r.ActiveGracePeriod

\* The authority answered the call with 200 and a trial-only result.
TrialOnlyAnswer(resp) ==
    resp.kind = "http" /\ resp.status = 200 /\ TrialOnly(resp.body)

\* No call returns a trial-only result, and no scope of an aggregate
\* validation that was answered with one is counted as usable.
TrialOnlyNeverUsable ==
    /\ ~TrialOnly(last.result)
    /\ \A i \in 1..Len(last.visited) :
          TrialOnlyAnswer(last.visited[i].resp)
             => ~last.visited[i].usable /\ ~TrialOnly(last.visited[i].result)

\* The last call was the validation the startup of this client makes (the
\* global scope per request in global mode, the aggregate otherwise), and
\* every answer of the authority in it was a trial-only result.
StartupOnTrialOnly ==
    \/ /\ IsGlobal
       /\ RequestCalled
       /\ last.orgID = GlobalPluginValue
       /\ TrialOnlyAnswer(last.resp[1])
    \/ /\ ~IsGlobal
       /\ Aggregate
       /\ Len(last.visited) = Len(OrganizationIDs)
       /\ \A i \in 1..Len(last.visited) :
             TrialOnlyAnswer(last.visited[i].resp)

C39_GlobalRefreshNotRejected ==
    IsGlobal =>
        \A k \in 1..Len(tasks) :
            tasks[k].lastErr # UnknownScopeError(GlobalPluginValue)

\* An attempt of the pass the refresh goroutine k is in (or was last in)
\* found a fatal state and called refreshManager.Shutdown.
FoundFatal(k) == k <= Len(tasks) /\ tasks[k].fatal

\* After a fatal attempt of goroutine k: it is not waiting for m.mu, its
\* context is cancelled, and its call of ValidateWithRetry is at the parent
\* context check or has returned, in no backoff and no further attempt
\* (or the process ended on the panic of the termination handler).
FatalEndsRetry(k) ==
    FoundFatal(k)
        => /\ tasks[k].pc # "blocked"
           /\ \/ ~Alive
              \/ /\ tasks[k].ctx = "cancelled"
                 /\ tasks[k].pc \in {"ctxcheck", "select", "exited"}
                 /\ tasks[k].pc = "select"
                       => tasks[k].how \in {"parentDone", "success"}

\* C40: when a validation run by a refresh goroutine finds a fatal state and
\* calls refreshManager.Shutdown, the goroutine does not block on m.mu:
\* Shutdown returns, the parent context of the retry loop is cancelled and
\* the loop makes no further attempt, and under a fair scheduler the
\* goroutine exits.
C40_FatalRefreshExits ==
    /\ [](\A k \in 1..MaxTasks : FatalEndsRetry(k))
    /\ \A k \in 1..MaxTasks : [](FoundFatal(k) => <>Gone(k))

\* C40 happens: the process lives on (the termination handler returned), a
\* goroutine whose attempt found the fatal state has left its retry loop at
\* the parent context check after that one attempt and has exited.
C40_Witness ==
    /\ Alive
    /\ ~started
    /\ \E k \in 1..Len(tasks) :
          /\ tasks[k].fatal
          /\ tasks[k].how = "parentDone"
          /\ tasks[k].n = 1
          /\ tasks[k].pc = "exited"

\* No refresh task is running: every refresh goroutine has returned and no
\* launch is pending (or the process has ended).
NoRefreshRunning ==
    \/ ~Alive
    \/ /\ goStart = 0
       /\ ~started
       /\ \A k \in 1..Len(tasks) : tasks[k].pc = "exited"

\* C37: once ShutdownBackgroundRefresh has been called after an adapter
\* constructor returned, then however the goroutine launched for
\* StartBackgroundRefresh interleaves, from some point on no refresh task is
\* running and none is started any more.
C37_ShutdownAfterStartupStops ==
    [](startup.stopped => <>[]NoRefreshRunning)

\* C38: an adapter constructor of a LicenseClient has returned a handler
\* only if the startup validation of that client ran to its end without a
\* panic; after a startup validation that panicked no constructor returns
\* a handler.
C38_HandlerOnlyAfterValidStartup ==
    \A a \in Adapters :
        adapters[a] = "built"
            => /\ initOnce = "done"
               /\ startup.runs = 1
               /\ ~startup.panicked

\* The last call was one of the verifier, answered by an HTTP response.
VerifierAnswered ==
    /\ last.op = "validateForOrganization"
    /\ last.resp[1].kind # "transport"

\* The verifier returned the APIError of the class named, with the status
\* code of the response, and no result.
ClassifiedAs(class) ==
    /\ last.err.api
    /\ last.err.StatusCode = last.resp[1].status
    /\ last.err.text[1] = class
    /\ last.result = ZeroResult

\* The classes of the statuses that are no success: 5xx is a server error,
\* 4xx a client error, any other an unexpected error.
ErrorClasses ==
    LET s == last.resp[1].status IN
    /\ (s >= 500 /\ s < 600) => ClassifiedAs("server error")
    /\ (s >= 400 /\ s < 500) => ClassifiedAs("client error")
    /\ (s < 200 \/ (s >= 300 /\ s < 400) \/ s >= 600)
          => ClassifiedAs("unexpected error")

\* C34 as stated: the verifier classifies every response by its status
\* class: every 2xx is a success that carries the decoded result, 5xx is a
\* server error, 4xx a client error, any other status an unexpected error
\* with the status code, and the verifier calls the authority once.
C34_StatusClasses ==
    VerifierAnswered =>
        /\ ErrorClasses
        /\ (last.resp[1].status >= 200 /\ last.resp[1].status < 300
              /\ last.resp[1].kind = "http")
              => (last.err = Nil /\ last.result = last.resp[1].body)
        /\ last.calls = 1

\* C34 amended: only status 200 is a success, carrying the decoded result
\* (an error that is no APIError when the body does not decode); 5xx is a
\* server error, 4xx a client error, and every other status, the 2xx other
\* than 200 among them, is an unexpected error carrying the status code;
\* the verifier calls the authority once.
C34_StatusClassesOnly200 ==
    VerifierAnswered =>
        /\ ErrorClasses
        /\ (last.resp[1].status = 200 /\ last.resp[1].kind = "http")
              => (last.err = Nil /\ last.result = last.resp[1].body)
        /\ (last.resp[1].status = 200 /\ last.resp[1].kind = "undecodable")
              => (last.err # Nil /\ ~last.err.api
                    /\ last.result = ZeroResult)
        /\ (last.resp[1].status > 200 /\ last.resp[1].status < 300)
              => ClassifiedAs("unexpected error")
        /\ last.calls = 1

\* C34 happens: the authority answered 201 with a valid result, and the
\* verifier returned the unexpected error 201 and no result.
C34_Witness ==
    /\ VerifierAnswered
    /\ last.resp[1].status = 201
    /\ last.resp[1].body.Valid
    /\ last.err.text = <<"unexpected error", ": ", Itoa(201)>>
    /\ last.err.StatusCode = 201
    /\ last.result = ZeroResult

\* The severity of a log line: a level, and the mark of the most severe
\* lines ("CRITICAL", "WARNING", the last day of a trial).
Severity(line) ==
    IF line.level = "Info"
    THEN "info"
    ELSE IF line.words \in {"CRITICAL: grace period ends - will terminate",
                            "TRIAL LICENSE: trial expires today"}
    THEN "critical warning"
    ELSE IF line.words = "WARNING: license expires in %d days. Contact"
    THEN "urgent warning"
    ELSE "warning"

\* The severities the threshold table gives for a result.
TableSeverities(r) ==
    (IF r.Valid /\ r.IsTrial
     THEN <<IF r.ExpiryDaysLeft = 0 THEN "critical warning"
            ELSE IF r.ExpiryDaysLeft <= 2 THEN "warning"
            ELSE "info">>
     ELSE IF r.Valid
     THEN <<IF r.ExpiryDaysLeft <= 7 THEN "urgent warning"
            ELSE IF r.ExpiryDaysLeft <= 30 THEN "warning"
            ELSE "info">>
     ELSE <<>>)
      \o (IF r.ActiveGracePeriod
          THEN <<IF r.ExpiryDaysLeft <= 7 THEN "critical warning"
                 ELSE "warning">>
          ELSE <<>>)

\* C35: for every usable result, the lines logValidResult emits have the
\* severities of the threshold table: for a valid trial licence critical on
\* day 0, a warning up to 2 days, info beyond; for a valid licence that is
\* no trial an urgent warning up to 7 days, a warning up to 30, info beyond;
\* for an active grace period the critical "will terminate" warning up to 7
\* days and a warning beyond.
C35_LogSeverityTable ==
    (last.op = "logValidResult" /\ Usable(last.result))
        => /\ last.logs # <<>>
           /\ Len(last.logs) = Len(TableSeverities(last.result))
           /\ \A i \in 1..Len(last.logs) :
                 Severity(last.logs[i]) = TableSeverities(last.result)[i]
           /\ \A i \in 1..Len(last.logs) :
                 (last.logs[i].words
                     = "CRITICAL: grace period ends - will terminate")
                    <=> (/\ last.result.ActiveGracePeriod
                         /\ last.result.ExpiryDaysLeft <= 7
                         /\ i = Len(last.logs))

\* C35 happens: a valid licence that is no trial, with exactly 7 days left,
\* was logged with the urgent warning.
C35_Witness ==
    /\ last.op = "logValidResult"
    /\ last.result.Valid
    /\ ~last.result.IsTrial
    /\ ~last.result.ActiveGracePeriod
    /\ last.result.ExpiryDaysLeft = 7
    /\ Len(last.logs) = 1
    /\ Severity(last.logs[1]) = "urgent warning"

\* The HTTP adapter of a multi-organization client answered the last
\* request itself or handed it on (the termination handler did not panic).
HTTPServed == served.adapter = "Middleware" /\ ~IsGlobal /\ ~served.panicked

\* The last request was rejected with the HTTP status and the error code.
RejectedWith(status, lcs) ==
    /\ ~served.next
    /\ served.status = status
    /\ served.lcs = lcs

\* The organization ID the request carries ("" without the header).
ServedOrgID == IF served.header = <<>> THEN "" ELSE served.header[1]

\* C31: in multi-organization mode an HTTP request is rejected with 400
\* and LCS-0010 when the organization header is missing, with 400 and
\* LCS-0011 when the organization is unknown, with 403 and LCS-0013 when
\* the licence of the organization is not usable, and with 403 and LCS-0012
\* when the licence could not be validated.
C31_HTTPRejections ==
    HTTPServed =>
        /\ ServedOrgID = "" => RejectedWith(400, "LCS-0010")
        /\ (/\ ServedOrgID # ""
            /\ ~ContainsOrganizationID(OrganizationIDs, ServedOrgID))
              => RejectedWith(400, "LCS-0011")
        /\ (/\ ContainsOrganizationID(OrganizationIDs, ServedOrgID)
            /\ served.err = ErrOrgLicenseInvalid)
              => RejectedWith(403, "LCS-0013")
        /\ (/\ ContainsOrganizationID(OrganizationIDs, ServedOrgID)
            /\ served.err \notin {Nil, ErrOrgLicenseInvalid})
              => RejectedWith(403, "LCS-0012")

\* The part of C31 about the header: 400 with LCS-0010 or LCS-0011.
HeaderRejections ==
    HTTPServed =>
        /\ ServedOrgID = "" => RejectedWith(400, "LCS-0010")
        /\ (/\ ServedOrgID # ""
            /\ ~ContainsOrganizationID(OrganizationIDs, ServedOrgID))
              => RejectedWith(400, "LCS-0011")

\* What the adapter answers for a licence that is not usable or could not
\* be validated: 400 with LCS-0013, and 500 with LCS-0001.
LicenceRejections ==
    HTTPServed =>
        /\ (/\ ContainsOrganizationID(OrganizationIDs, ServedOrgID)
            /\ served.err = ErrOrgLicenseInvalid)
              => RejectedWith(400, "LCS-0013")
        /\ (/\ ContainsOrganizationID(OrganizationIDs, ServedOrgID)
            /\ served.err \notin {Nil, ErrOrgLicenseInvalid})
              => RejectedWith(500, "LCS-0001")

====
